---- MODULE Spec2Model ----
(***************************************************************************)
(* Model of the dedupe photo organizer (package photo and its callers).    *)
(*                                                                         *)
(* One run is modelled: main counts the files (CountFiles), creates the   *)
(* State (NewState), ProcessFiles sets up the destination and the log,     *)
(* starts the worker pool, walks the source tree handing one path at a     *)
(* time to a worker over the unbuffered channel, closes the channel and    *)
(* waits for the workers.  Each worker runs processFile on the path it     *)
(* received, then IncrementError (on error), IncrementProcessed and        *)
(* messenger.Send.                                                         *)
(*                                                                         *)
(* Paths and file names are strings, built and taken apart the way the     *)
(* code does it (filepath.Join, filepath.Base, filepath.Ext,               *)
(* strings.TrimSuffix, fmt.Sprintf, time.Format).                          *)
(***************************************************************************)
EXTENDS Integers, Sequences, FiniteSets, TLC

(***************************************************************************)
(* Bounds of the model.                                                    *)
(***************************************************************************)
NumFiles == 2       \* source files the tree can hold
NumWorkers == 2     \* runtime.NumCPU() of the modelled host
MaxFaults == 1      \* I/O calls that may fail during one run

NumCallers == 2     \* concurrent callers of the State methods
MaxSends == 4       \* calls of teaMessenger.Send
MaxCalls == 4       \* calls of State methods the callers make in all

Files == 1 .. NumFiles
\* the files of the largest tree modelled: a run without faults has one file
\* more than the runs with faults
AllFiles == 1 .. NumFiles + 1
Workers == 1 .. NumWorkers
Callers == 1 .. NumCallers

(***************************************************************************)
(* Inputs.  A content is what the bytes of a file determine: its MD5       *)
(* checksum (hex) and the creation date its metadata resolves to.  The two *)
(* checksums share their first 8 hex characters, so that the dated names   *)
(* of different contents can collide.                                      *)
(***************************************************************************)
ZeroTime == [year |-> 1, month |-> 1, day |-> 1]
SomeDate == [year |-> 2020, month |-> 5, day |-> 1]
Dates == {ZeroTime, SomeDate}
Checksums == {"abcdef01aaaa", "abcdef01bbbb"}

srcDir == "src"
destDir == "dest"

\* The source tree: every file in a directory of its own, the first of
\* them a hidden directory; the files share the base name x.jpg, except
\* every third one, which is named x_1.jpg.  The root also holds a hidden
\* file.
SrcName(f) == IF f % 3 = 0 THEN "x_1.jpg" ELSE "x.jpg"
SrcFolder(f) ==
    srcDir \o "/" \o (IF f = 1 THEN ".d" ELSE "d") \o ToString(f)
SrcPath(f) == SrcFolder(f) \o "/" \o SrcName(f)
HiddenFile == srcDir \o "/.DS_Store"

(***************************************************************************)
(* path/filepath and strings helpers.                                      *)
(***************************************************************************)
Char(s, i) == SubSeq(s, i, i)

RECURSIVE LastIndexFrom(_, _, _)
\* the largest i <= from with s[i] = ch, or 0
LastIndexFrom(s, ch, from) ==
    IF from = 0 THEN 0
    ELSE IF Char(s, from) = ch THEN from
    ELSE LastIndexFrom(s, ch, from - 1)

LastSlash(s) == LastIndexFrom(s, "/", Len(s))

\* filepath.Base on a path that does not end in a separator
Base(path) == SubSeq(path, LastSlash(path) + 1, Len(path))

\* filepath.Split: the directory, with its trailing separator, and the file
SplitDir(path) == SubSeq(path, 1, LastSlash(path))
SplitFile(path) == SubSeq(path, LastSlash(path) + 1, Len(path))

\* filepath.Ext: the suffix from the last dot of the last element, or ""
Ext(path) ==
    LET file == Base(path)
        dot == LastIndexFrom(file, ".", Len(file))
    IN  IF dot = 0 THEN "" ELSE SubSeq(file, dot, Len(file))

HasPrefix(s, prefix) ==
    /\ Len(prefix) <= Len(s)
    /\ SubSeq(s, 1, Len(prefix)) = prefix

HasSuffix(s, suffix) ==
    /\ Len(suffix) <= Len(s)
    /\ SubSeq(s, Len(s) - Len(suffix) + 1, Len(s)) = suffix

TrimSuffix(s, suffix) ==
    IF HasSuffix(s, suffix) THEN SubSeq(s, 1, Len(s) - Len(suffix)) ELSE s

\* filepath.Join of a clean directory and one element
Join(dir, elem) ==
    IF HasSuffix(dir, "/") THEN dir \o elem ELSE dir \o "/" \o elem

\* time.Format("2006"), ("01"), ("02") for the years and days modelled
Pad(n, width) ==
    LET s == ToString(n)
    IN  IF Len(s) >= width THEN s
        ELSE SubSeq("0000", 1, width - Len(s)) \o s
Format2006(d) == Pad(d.year, 4)
\* a month written without its leading zero
Format01Unpadded(d) == ToString(d.month)
Format01(d) == Pad(d.month, 2)
Format02(d) == Pad(d.day, 2)
IsZero(d) == d = ZeroTime

duplicatesDir == Join(destDir, "duplicates")
noDataDir == Join(destDir, "nodata")


(***************************************************************************)
(* State.                                                                  *)
(***************************************************************************)
VARIABLES
    moveFiles,   \* the run-mode flag (Options.MoveFiles): move instead of copy
    tree,        \* the files that exist in the source tree
    content,     \* the content of every source file: [sum, date]
    fs,          \* the destination tree: path -> [sum, full]
    state,       \* the State: total, processed, duplicates, errorCount, message
    duplicates,  \* the index of ProcessFiles: checksum -> sequence of paths
    mapLock,     \* the workers that hold the index lock
    logFile,     \* the lines appended to the duplicate log by this run
    closed,      \* filePathChan has been closed
    mainpc,      \* position of main / ProcessFiles
    treeChanged, \* the source tree changed between the two traversals
    handed,      \* the files the walker has handed to a worker
    walkErr,     \* err of ProcessFiles: filepath.Walk returned an error
    result,      \* what ProcessFiles returned: "", "nil", "setup" or "walk"
    logOpen,     \* the duplicate log is open: OpenFile done, Close not yet
    wpc,         \* position of every worker
    wfile,       \* the file a worker is processing (0: none)
    wbranch,     \* the branch processFile took: "", "canonical", "duplicate"
    wpaths,      \* paths: the index entry processFile read for its checksum
    wdest,       \* the destination path a worker has planned
    werr,        \* processFile of the worker returned an error
    faults,      \* the I/O calls that failed so far
    placed,      \* history: file -> the path it was transferred to ("": none)
    placedAs,    \* history: file -> "canonical", "duplicate" or "" (not placed)
    counted,     \* history: file -> IncrementProcessed calls made for it
    notified,    \* history: file -> messenger.Send calls made for it
    failed,      \* history: the files whose processFile returned an error
    wfailures,   \* history: worker -> processFile errors it has been returned
    sends,       \* history: messenger.Send calls of the run
    decisions,   \* history: the files recorded as duplicates, in order
    mu,          \* State.mu: the caller holding it for writing (0: none)
                 \* and the callers holding it for reading
    cpc,         \* position of every caller of the State methods
    cop,         \* the method a caller is in
    ctmp,        \* the fields a caller has read inside its method
    snapshot,    \* the copy Status returned to a caller, as returned and as
                 \* the caller has it now
    calls,       \* history: completed calls of every method
    held,        \* history: the values the State has held
    run,         \* the run of the program: its number and the destination
                 \* tree it found
    perm,        \* the permission bits of the destination files of a call
    op,          \* a call of CountFiles, copyFile or moveFile made on its
                 \* own: its arguments, position, locals and result
    resolve,     \* the date resolution of processFile for one path: the
                 \* path, what the decoders answer, and the result
    program      \* the tea.Program behind the messenger: the messages
                 \* passed to Send and the messages the program was sent

vars == <<moveFiles, tree, content, fs, state, duplicates, mapLock, logFile,
          closed, mainpc, treeChanged, handed, walkErr, result, logOpen,
          wpc, wfile,
          wbranch, wpaths, wdest, werr, faults, placed, placedAs, counted,
          notified, failed, wfailures, sends, decisions, mu, cpc, cop,
          ctmp, snapshot, calls, held, run, perm, op, resolve, program>>

inputVars == <<moveFiles, content>>
pipeVars ==
    <<closed, mainpc, treeChanged, handed, walkErr, result, logOpen>>
localVars == <<wfile, wbranch, wpaths, wdest, werr>>
histVars ==
    <<placed, placedAs, counted, notified, failed, wfailures, sends,
      decisions>>
callerVars == <<mu, cpc, cop, ctmp, snapshot, calls, held>>
callVars == <<perm, op, resolve, program>>

Contents == [sum : Checksums, date : Dates]

\* calculateChecksum: the MD5 of the bytes, hex encoded
calculateChecksum(f) == content[f].sum
\* getPhotoCreationDate / getVideoCreationDate, an error taken as no date
CreationDate(f) == content[f].date

Exists(path) == path \in DOMAIN fs

(***************************************************************************)
(* State and its operations.                                               *)
(***************************************************************************)
NewState(total) ==
    [total |-> total, processed |-> 0, message |-> "Initializing...",
     duplicates |-> 0, errorCount |-> 0]

\* an increment that counts a file twice
IncrementProcessedTwice(s) == [s EXCEPT !.processed = @ + 2]

IncrementProcessed(s) == [s EXCEPT !.processed = @ + 1]
\* an increment that is lost
IncrementDuplicatesNone(s) == s
IncrementDuplicates(s) == [s EXCEPT !.duplicates = @ + 1]
\* an IncrementError that counts the error twice
IncrementErrorTwice(s) == [s EXCEPT !.errorCount = @ + 2]

IncrementError(s) == [s EXCEPT !.errorCount = @ + 1]
\* an update that also resets the total
UpdateMessageAndTotal(s, message) ==
    [s EXCEPT !.message = message, !.total = 0]
UpdateMessage(s, message) == [s EXCEPT !.message = message]

\* the value a caller holds before it has read the State
NoRead == NewState(0)
NoCopy == [taken |-> FALSE, returned |-> NoRead, copy |-> NoRead]
NoCalls ==
    [processed |-> 0, duplicates |-> 0, errorCount |-> 0, message |-> 0,
     status |-> 0]

(***************************************************************************)
(* Destination planning.                                                   *)
(***************************************************************************)
\* a loop that returns its first candidate without the existence check
ScanFromUnchecked(dir, base, ext, i) ==
    Join(dir, base \o "_" \o ToString(i) \o ext)

RECURSIVE ScanFrom(_, _, _, _)
\* the loop of resolveNamingConflict, from suffix i upward
ScanFrom(dir, base, ext, i) ==
    LET newPath == Join(dir, base \o "_" \o ToString(i) \o ext)
    IN  IF ~Exists(newPath) THEN newPath
        ELSE ScanFrom(dir, base, ext, i + 1)

resolveNamingConflict(path) ==
    LET dir == SplitDir(path)
        file == SplitFile(path)
        ext == Ext(file)
        base == TrimSuffix(file, ext)
    IN  ScanFrom(dir, base, ext, 1)

\* a plan that takes the computed path without the os.Stat guard
UnusedNoStat(path) == path

\* the os.Stat guard around every use of resolveNamingConflict
Unused(path) == IF Exists(path) THEN resolveNamingConflict(path) ELSE path

\* a duplicate branch that plans its path in the no-data store
DuplicatePathInNoData(path) == Unused(Join(noDataDir, Base(path)))

\* processFile, duplicate branch: the path in the duplicates store
DuplicatePath(path) == Unused(Join(duplicatesDir, Base(path)))

\* processFile, no valid date: the path in the no-data store
NoDataPath(path) == Unused(Join(noDataDir, Base(path)))

\* processFile, valid date: <dest>/YYYY/MM/DD/<stem>_<checksum[:8]><ext>
DatedPath(path, date, checksum) ==
    LET destFolder == Join(Join(Join(destDir, Format2006(date)),
                                Format01(date)), Format02(date))
        destFileName == TrimSuffix(Base(path), Ext(path)) \o "_"
                            \o SubSeq(checksum, 1, 8) \o Ext(path)
    IN  Unused(Join(destFolder, destFileName))

LogLine(path, first) ==
    "Duplicate detected: " \o path \o " (duplicate of: " \o first \o ")\n"

(***************************************************************************)
(* File transfer.  Each yields the error flag and the trees afterwards.    *)
(* out is what the operating system does: "ok", "fail" (nothing written)   *)
(* or "partial" (destination created, content not completely written).     *)
(***************************************************************************)
Outcomes == {"ok", "fail", "partial"}

copyFile(f, dest, out) ==
    IF f \notin tree \/ out = "fail"
    THEN [err |-> TRUE, fs |-> fs, tree |-> tree]
    ELSE [err |-> out # "ok",
          fs |-> (dest :> [sum |-> content[f].sum, full |-> out = "ok"]) @@ fs,
          tree |-> tree]

\* a move that copies and deletes when the rename fails
moveFileFallback(f, dest, out) ==
    IF f \notin tree
    THEN [err |-> TRUE, fs |-> fs, tree |-> tree]
    ELSE [err |-> FALSE,
          fs |-> (dest :> [sum |-> content[f].sum, full |-> TRUE]) @@ fs,
          tree |-> tree \ {f}]

\* a move that leaves the source in place
moveFileKeepSource(f, dest, out) ==
    IF f \notin tree \/ out # "ok"
    THEN [err |-> TRUE, fs |-> fs, tree |-> tree]
    ELSE [err |-> FALSE,
          fs |-> (dest :> [sum |-> content[f].sum, full |-> TRUE]) @@ fs,
          tree |-> tree]

moveFile(f, dest, out) ==
    IF f \notin tree \/ out # "ok"
    THEN [err |-> TRUE, fs |-> fs, tree |-> tree]
    ELSE [err |-> FALSE,
          fs |-> (dest :> [sum |-> content[f].sum, full |-> TRUE]) @@ fs,
          tree |-> tree \ {f}]

\* the transfer the run mode selects
Transfer(f, dest, out) ==
    IF moveFiles THEN moveFile(f, dest, out) ELSE copyFile(f, dest, out)

(***************************************************************************)
(* The initial state: main has counted the files and created the State.    *)
(***************************************************************************)
\* the os.FileInfo the walk function is given for an entry
FileInfo(path, isDir) == [path |-> path, name |-> Base(path), isDir |-> isDir]

\* the entries filepath.Walk visits when the source tree holds the files t
Listing(t) ==
    {FileInfo(srcDir, TRUE), FileInfo(HiddenFile, FALSE)}
        \cup {FileInfo(SrcFolder(f), TRUE) : f \in t}
        \cup {FileInfo(SrcPath(f), FALSE) : f \in t}

\* the entries of directory dir
Children(t, dir) == {e \in Listing(t) : SplitDir(e.path) = dir \o "/"}

\* a count that takes in the hidden files
IsCountedHidden(info) == ~info.isDir

\* the walk function of CountFiles: the entries that add to the total
IsCounted(info) == ~info.isDir /\ ~HasPrefix(info.name, ".")

\* the walk function of ProcessFiles: the entries sent to the workers
IsSent(info) == ~info.isDir /\ ~HasPrefix(info.name, ".")

RECURSIVE WalkCount(_, _, _)
\* filepath.Walk over the entries todo and all below them, the walk
\* function of CountFiles adding to total
WalkCount(t, todo, total) ==
    IF todo = {} THEN total
    ELSE LET e == CHOOSE x \in todo : TRUE
             here == IF IsCounted(e) THEN 1 ELSE 0
             below == IF e.isDir THEN WalkCount(t, Children(t, e.path), 0)
                                 ELSE 0
         IN  WalkCount(t, todo \ {e}, total + here + below)

\* CountFiles on a root that exists or not: (total, nil) or (0, error)
CountFiles(root, t) ==
    IF root
    THEN [total |-> WalkCount(t, {FileInfo(srcDir, TRUE)}, 0), err |-> FALSE]
    ELSE [total |-> 0, err |-> TRUE]

\* no call has been made: the mode of the source file and the umask of
\* the process are given
NoCall(srcMode, umask) ==
    [name |-> "", pc |-> "idle", f |-> 0, dest |-> "", err |-> FALSE,
     failedAt |-> "", info |-> 0, srcMode |-> srcMode, umask |-> umask,
     root |-> TRUE, total |-> 0,
     before |-> [fs |-> <<>>, tree |-> {}, perm |-> <<>>]]

\* Byte-identical files resolve to the same checksum and the same date.
\* The checksum of file 1 is fixed: exchanging the two checksums maps every
\* other assignment onto one of these.
FirstChecksum == "abcdef01aaaa"
ContentAssignments ==
    {c \in [AllFiles -> Contents] :
        /\ c[1].sum = FirstChecksum
        /\ \A f, g \in AllFiles :
                c[f].sum = c[g].sum => c[f].date = c[g].date}

\* the contents of a tree of Files: the file beyond them is a copy of the
\* first
RunContents == {c \in ContentAssignments : c[NumFiles + 1] = c[1]}

\* at the time of CountFiles the last file may not exist yet
InitTrees == {Files, Files \ {NumFiles}}

\* main has counted the files of the tree and created the State; nothing
\* of ProcessFiles has run
InitRest ==
    /\ mu = [writer |-> 0, readers |-> {}]
    /\ cpc = [c \in Callers |-> "idle"]
    /\ cop = [c \in Callers |-> ""]
    /\ ctmp = [c \in Callers |-> NoRead]
    /\ snapshot = [c \in Callers |-> NoCopy]
    /\ calls = NoCalls
    /\ held = {NewState(CountFiles(TRUE, tree).total)}
    /\ state = NewState(CountFiles(TRUE, tree).total)
    /\ duplicates = <<>>
    /\ mapLock = {}
    /\ logFile = <<>>
    /\ closed = FALSE
    /\ logOpen = FALSE
    /\ mainpc = "counted"
    /\ treeChanged = FALSE
    /\ handed = {}
    /\ walkErr = FALSE
    /\ result = ""
    /\ wpc = [w \in Workers |-> "none"]
    /\ wfile = [w \in Workers |-> 0]
    /\ wbranch = [w \in Workers |-> ""]
    /\ wpaths = [w \in Workers |-> <<>>]
    /\ wdest = [w \in Workers |-> ""]
    /\ werr = [w \in Workers |-> FALSE]
    /\ faults = 0
    /\ placed = [f \in AllFiles |-> ""]
    /\ placedAs = [f \in AllFiles |-> ""]
    /\ counted = [f \in AllFiles |-> 0]
    /\ notified = [f \in AllFiles |-> 0]
    /\ failed = {}
    /\ wfailures = [w \in Workers |-> 0]
    /\ sends = 0
    /\ decisions = <<>>

\* no path has had its date resolved on its own
NoResolve ==
    [pc |-> "idle", path |-> "", video |-> "", photo |-> "", used |-> "",
     date |-> ZeroTime, err |-> FALSE]

\* p := tea.NewProgram(tui.New(state)): nothing was passed to Send
NoProgram == [sent |-> <<>>, inbox |-> <<>>]

\* no call is made beside the run
InitUncalled ==
    /\ resolve = NoResolve
    /\ program = NoProgram

\* the first run of the program, no call made beside it
InitAlone ==
    /\ run = [n |-> 1, before |-> <<>>]
    /\ perm = <<>>
    /\ op = NoCall(420, 18)
    /\ InitUncalled

\* the run but for the destination tree and the run mode
InitPipeline ==
    /\ tree \in InitTrees
    /\ content \in RunContents
    /\ InitRest
    /\ InitAlone

\* a run into an empty destination
InitRun == InitPipeline /\ fs = <<>>

\* the program of src/main.go: every transfer is a copy
Init == InitRun /\ moveFiles = FALSE

\* A destination that holds files of an earlier run or of the user, of a
\* content no source file has, under the names the run will compute: the
\* computed names alone, or with their _1 successors.
OldFile == [sum |-> "0123456789ab", full |-> TRUE]
ComputedNames ==
    {"dest/duplicates/x.jpg", "dest/nodata/x.jpg",
     "dest/2020/05/01/x_abcdef01.jpg"}
FirstSuccessors ==
    {"dest/duplicates/x_1.jpg", "dest/nodata/x_1.jpg",
     "dest/2020/05/01/x_abcdef01_1.jpg"}
ExistingTrees ==
    {[p \in S |-> OldFile] :
        S \in {ComputedNames, ComputedNames \cup FirstSuccessors}}

\* the program of src/main.go run into such a destination, every file of
\* the tree there when main counts
InitExisting ==
    InitPipeline /\ tree = Files /\ fs \in ExistingTrees /\ moveFiles = FALSE

\* the program with the -move flag: the run mode is an input
InitRunMode == InitRun /\ moveFiles \in BOOLEAN

(***************************************************************************)
(* main and ProcessFiles: set-up, the walker, close and wait.              *)
(***************************************************************************)
\* Between CountFiles and the walk of ProcessFiles the last file appears in
\* the source tree or disappears from it.
TreeChange ==
    /\ mainpc = "counted"
    /\ ~treeChanged
    /\ tree' = IF NumFiles \in tree THEN tree \ {NumFiles}
                                    ELSE tree \cup {NumFiles}
    /\ treeChanged' = TRUE
    /\ UNCHANGED <<callerVars, run, callVars>>
    /\ UNCHANGED <<inputVars, fs, state, duplicates, mapLock, logFile, closed,
                   mainpc, handed, walkErr, result, logOpen, wpc, localVars,
                   faults, histVars>>

\* where ProcessFiles goes after the MkdirAll of the two stores and the
\* OpenFile of the log: each of the three returns its error at once
AfterSetupNoReturn(ok) == "walk"
AfterSetup(ok) == IF ok THEN "walk" ELSE "done"

\* ProcessFiles up to the start of the walk: MkdirAll of the two stores,
\* OpenFile of the log, the index, the channel and the worker pool.
Setup(ok) ==
    /\ mainpc = "counted"
    /\ mainpc' = AfterSetup(ok)
    /\ wpc' = IF AfterSetup(ok) = "walk" THEN [w \in Workers |-> "recv"]
                                         ELSE wpc
    /\ result' = IF ok THEN result ELSE "setup"
    /\ logOpen' = ok
    /\ UNCHANGED <<callerVars, run, callVars>>
    /\ UNCHANGED <<inputVars, tree, fs, state, duplicates, mapLock, logFile,
                   closed, treeChanged, handed, walkErr, localVars, faults,
                   histVars>>

\* filepath.Walk visits the entries in lexical order of their paths
NextInWalk(f) ==
    /\ f \in tree \ handed
    /\ IsSent(FileInfo(SrcPath(f), FALSE))
    /\ \A g \in tree \ handed : f <= g

\* a send that is taken by a worker that still holds a path
ReceiverBusy(w) == TRUE

\* the worker that receives: the workers blocked on the receive are in the
\* same state and the runtime wakes any one of them, taken here to be the
\* lowest-numbered
Receiver(w) ==
    /\ wpc[w] = "recv"
    /\ \A v \in Workers : wpc[v] = "recv" => w <= v

\* a channel that delivers the path to every worker at the receive
HandoffToAll(f, w) ==
    /\ mainpc = "walk"
    /\ NextInWalk(f)
    /\ Receiver(w)
    /\ handed' = handed \cup {f}
    /\ wpc' = [v \in Workers |->
                IF wpc[v] = "recv" THEN "process" ELSE wpc[v]]
    /\ wfile' = [v \in Workers |-> IF wpc[v] = "recv" THEN f ELSE wfile[v]]
    /\ UNCHANGED <<callerVars, run, callVars>>
    /\ UNCHANGED <<inputVars, tree, fs, state, duplicates, mapLock, logFile,
                   closed, mainpc, treeChanged, walkErr, result, logOpen,
                   wbranch,
                   wpaths, wdest, werr, faults, histVars>>

\* The walk function sends a path and a worker receives it: the channel is
\* unbuffered, so the send and the receive are one step.
Handoff(f, w) ==
    /\ mainpc = "walk"
    /\ NextInWalk(f)
    /\ Receiver(w)
    /\ handed' = handed \cup {f}
    /\ wpc' = [wpc EXCEPT ![w] = "process"]
    /\ wfile' = [wfile EXCEPT ![w] = f]
    /\ UNCHANGED <<callerVars, run, callVars>>
    /\ UNCHANGED <<inputVars, tree, fs, state, duplicates, mapLock, logFile,
                   closed, mainpc, treeChanged, walkErr, result, logOpen,
                   wbranch,
                   wpaths, wdest, werr, faults, histVars>>

\* a ProcessFiles that closes the log when the walk has returned
LogClosedBeforeWait == FALSE

\* defer logFile.Close(): the log is as it was while ProcessFiles closes
\* the channel and waits for the workers
LogWhileWaiting == logOpen

\* a ProcessFiles that does not close the channel
ClosedNever == FALSE

\* close(filePathChan) after filepath.Walk has returned
ClosedAfterWalk == TRUE

\* filepath.Walk returns, with every file sent or with an error, and the
\* channel is closed.
CloseChan(failure) ==
    /\ mainpc = "walk"
    /\ failure \/ tree \ handed = {}
    /\ walkErr' = failure
    /\ closed' = ClosedAfterWalk
    /\ logOpen' = LogWhileWaiting
    /\ mainpc' = "wait"
    /\ UNCHANGED <<callerVars, run, callVars>>
    /\ UNCHANGED <<inputVars, tree, fs, state, duplicates, mapLock, logFile,
                   treeChanged, handed, result, wpc, localVars, faults,
                   histVars>>

\* wg.Wait(): every worker has run its deferred wg.Done()
AllExitedNoWait == TRUE
AllExited == \A w \in Workers : wpc[w] = "exited"

\* return err: the error of filepath.Walk, nil when the walk completed
ReturnedNil(err) == "nil"
Returned(err) == IF err THEN "walk" ELSE "nil"

\* wg.Wait() and the return of ProcessFiles
WaitReturn ==
    /\ mainpc = "wait"
    /\ AllExited
    /\ mainpc' = "done"
    /\ result' = Returned(walkErr)
    /\ logOpen' = FALSE
    /\ UNCHANGED <<callerVars, run, callVars>>
    /\ UNCHANGED <<inputVars, tree, fs, state, duplicates, mapLock, logFile,
                   closed, treeChanged, handed, walkErr, wpc, localVars,
                   faults, histVars>>

(***************************************************************************)
(* The workers.                                                            *)
(***************************************************************************)
\* the range loop ends when the channel is closed and empty
WorkerExit(w) ==
    /\ wpc[w] = "recv"
    /\ closed
    /\ wpc' = [wpc EXCEPT ![w] = "exited"]
    /\ UNCHANGED <<callerVars, run, callVars>>
    /\ UNCHANGED <<inputVars, tree, fs, state, duplicates, mapLock, logFile,
                   pipeVars, localVars, faults, histVars>>

\* a loop that does not count a failed file as processed
AfterProcessFileUncounted(err) == IF err THEN "send" ELSE "incp"

\* a loop that goes to the next path when processFile failed
AfterProcessFileContinue(err) == IF err THEN "recv" ELSE "incp"

\* a loop that a failed processFile ends
AfterProcessFileStop(err) == IF err THEN "exited" ELSE "incp"

\* where the worker loop goes when processFile has returned err
AfterProcessFile(err) == IF err THEN "incerr" ELSE "incp"

\* a lock that excludes no one
LockAvailableAlways == TRUE

\* mapLock.Lock() returns only when no one holds the lock
LockAvailable == mapLock = {}

\* a processFile that returns the error of the date strategy
DateErrorReturned(f) == CreationDate(f) = ZeroTime

\* processFile returns an error because no date was resolved for f: never,
\* the error of either strategy is replaced by the zero time
DateError(f) == FALSE

\* processFile before the lock: os.Open, the creation date, Seek and
\* calculateChecksum.  A failure of os.Open, Seek or calculateChecksum is
\* returned.
Prepare(w, ok) ==
    /\ wpc[w] = "process"
    /\ IF ok /\ ~DateError(wfile[w])
       THEN /\ wfile[w] \in tree
            /\ wpc' = [wpc EXCEPT ![w] = "lock"]
            /\ UNCHANGED <<werr, faults, failed, wfailures>>
       ELSE /\ \/ DateError(wfile[w])
               \/ faults < MaxFaults
               \/ wfile[w] \notin tree
            /\ faults' = IF DateError(wfile[w]) THEN faults ELSE faults + 1
            /\ werr' = [werr EXCEPT ![w] = TRUE]
            /\ failed' = failed \cup {wfile[w]}
            /\ wfailures' = [wfailures EXCEPT ![w] = @ + 1]
            /\ wpc' = [wpc EXCEPT ![w] = AfterProcessFile(TRUE)]
    /\ UNCHANGED <<callerVars, run, callVars>>
    /\ UNCHANGED <<inputVars, tree, fs, state, duplicates, mapLock, logFile,
                   pipeVars, wfile, wbranch, wpaths, wdest, placed, placedAs,
                   counted, notified, sends, decisions>>

\* a processFile whose Unlock is not deferred and is missed by a return
Locked(holders, w) == holders

\* defer mapLock.Unlock(): the holders of the lock when processFile of
\* worker w has returned, whichever return it took
Unlocked(holders, w) == holders \ {w}

\* a look-up that finds nothing
InIndexNever(checksum) == FALSE

\* paths, exists := duplicates[checksum]
InIndex(checksum) == checksum \in DOMAIN duplicates

\* processFile from mapLock.Lock() to the transfer: the lock is taken, the
\* checksum is looked up in the index and the destination path is planned.
\* MkdirAll of the dated folder can fail; the deferred Unlock runs on that
\* return.
LockCheck(w, ok) ==
    LET f == wfile[w]
        path == SrcPath(f)
        checksum == calculateChecksum(f)
        date == CreationDate(f)
        exists == InIndex(checksum)
    IN  /\ wpc[w] = "lock"
        /\ LockAvailable
        /\ IF ok
           THEN /\ wbranch' = [wbranch EXCEPT ![w] =
                        IF exists THEN "duplicate" ELSE "canonical"]
                /\ wpaths' = [wpaths EXCEPT ![w] =
                        IF exists THEN duplicates[checksum] ELSE <<>>]
                /\ wdest' = [wdest EXCEPT ![w] =
                        IF exists THEN DuplicatePath(path)
                        ELSE IF IsZero(date) THEN NoDataPath(path)
                        ELSE DatedPath(path, date, checksum)]
                /\ mapLock' = mapLock \cup {w}
                /\ wpc' = [wpc EXCEPT ![w] = "place"]
                /\ UNCHANGED <<werr, faults, failed, wfailures>>
           ELSE /\ ~exists /\ ~IsZero(date)
                /\ faults < MaxFaults
                /\ faults' = faults + 1
                /\ werr' = [werr EXCEPT ![w] = TRUE]
                /\ failed' = failed \cup {f}
                /\ wfailures' = [wfailures EXCEPT ![w] = @ + 1]
                /\ wpc' = [wpc EXCEPT ![w] = AfterProcessFile(TRUE)]
                /\ mapLock' = Unlocked(mapLock \cup {w}, w)
                /\ UNCHANGED <<wbranch, wpaths, wdest>>
        /\ UNCHANGED <<callerVars, run, callVars>>
        /\ UNCHANGED <<inputVars, tree, fs, state, duplicates, logFile,
                       pipeVars, wfile, placed, placedAs, counted, notified,
                       sends, decisions>>

\* the entry processFile appends to the path list for a duplicate
DuplicateEntry(path, duplicatePath) == path

\* a registration that is lost
RegisterCanonicalLost(checksum, destPath) == duplicates

\* the index after the canonical copy at destPath has been registered
RegisterCanonical(checksum, destPath) ==
    (checksum :> <<destPath>>) @@ duplicates

\* a record that replaces the path list by the newest path
RecordDuplicateAlone(checksum, paths, entry) ==
    (checksum :> <<entry>>) @@ duplicates

\* a record that puts the newest path first
RecordDuplicateFirst(checksum, paths, entry) ==
    (checksum :> (<<entry>> \o paths)) @@ duplicates

\* the index after a duplicate has been recorded
RecordDuplicate(checksum, paths, entry) ==
    (checksum :> Append(paths, entry)) @@ duplicates

\* a processFile that registers the planned path before it copies
IndexOnErrorRegistered(checksum, destPath) ==
    (checksum :> <<destPath>>) @@ duplicates

\* the index when the transfer has failed: processFile returns the error
\* before it touches the index
IndexOnError(checksum, destPath) == duplicates

\* an Unlock that runs before the log line is written
HeldForLogReleased(w) == mapLock \ {w}

\* the holders of mapLock between the index append and the log line of a
\* duplicate: the Unlock is deferred to the return of processFile
HeldForLog(w) == mapLock

\* processFile under the lock, from the transfer to the index update: the
\* transfer to the planned path and, when it succeeded, the registration of
\* a canonical copy or the append and IncrementDuplicates of a duplicate.
\* The deferred Unlock runs when processFile returns here.
Place(w, out) ==
    LET f == wfile[w]
        path == SrcPath(f)
        checksum == calculateChecksum(f)
        t == Transfer(f, wdest[w], out)
    IN  /\ wpc[w] = "place"
        /\ out # "ok" => faults < MaxFaults
        /\ faults' = IF out # "ok" THEN faults + 1 ELSE faults
        /\ fs' = t.fs
        /\ tree' = t.tree
        /\ werr' = [werr EXCEPT ![w] = t.err]
        /\ IF t.err
           THEN /\ failed' = failed \cup {f}
                /\ wfailures' = [wfailures EXCEPT ![w] = @ + 1]
                /\ mapLock' = Unlocked(mapLock, w)
                /\ wpc' = [wpc EXCEPT ![w] = AfterProcessFile(TRUE)]
                /\ duplicates' = IndexOnError(checksum, wdest[w])
                /\ UNCHANGED <<state, placed, placedAs, decisions>>
           ELSE /\ placed' = [placed EXCEPT ![f] = wdest[w]]
                /\ placedAs' = [placedAs EXCEPT ![f] = wbranch[w]]
                /\ UNCHANGED <<failed, wfailures>>
                /\ IF wbranch[w] = "duplicate"
                   THEN /\ duplicates' = RecordDuplicate(checksum, wpaths[w],
                                DuplicateEntry(path, wdest[w]))
                        /\ state' = IncrementDuplicates(state)
                        /\ decisions' = Append(decisions, f)
                        /\ mapLock' = HeldForLog(w)
                        /\ wpc' = [wpc EXCEPT ![w] = "log"]
                   ELSE /\ duplicates' =
                                RegisterCanonical(checksum, wdest[w])
                        /\ mapLock' = Unlocked(mapLock, w)
                        /\ wpc' = [wpc EXCEPT ![w] = AfterProcessFile(FALSE)]
                        /\ UNCHANGED <<state, decisions>>
        /\ UNCHANGED <<callerVars, run, callVars>>
        /\ UNCHANGED <<inputVars, logFile, pipeVars, wfile, wbranch, wpaths,
                       wdest, counted, notified, sends>>

\* processFile, duplicate branch, after IncrementDuplicates: the line is
\* written to the log, the result of logFile.WriteString is discarded,
\* processFile returns nil and the deferred Unlock runs.
LogWrite(w, logged) ==
    /\ wpc[w] = "log"
    /\ ~logged => faults < MaxFaults
    /\ faults' = IF logged THEN faults ELSE faults + 1
    /\ logFile' = IF logged /\ logOpen
                  THEN Append(logFile,
                              LogLine(SrcPath(wfile[w]), wpaths[w][1]))
                  ELSE logFile
    /\ mapLock' = Unlocked(mapLock, w)
    /\ wpc' = [wpc EXCEPT ![w] = AfterProcessFile(FALSE)]
    /\ UNCHANGED <<callerVars, run, callVars>>
    /\ UNCHANGED <<inputVars, tree, fs, state, duplicates, pipeVars,
                   localVars, histVars>>

\* the worker loop after a failed processFile: state.IncrementError()
IncError(w) ==
    /\ wpc[w] = "incerr"
    /\ state' = IncrementError(state)
    /\ wpc' = [wpc EXCEPT ![w] = "incp"]
    /\ UNCHANGED <<callerVars, run, callVars>>
    /\ UNCHANGED <<inputVars, tree, fs, duplicates, mapLock, logFile,
                   pipeVars, localVars, faults, histVars>>

\* state.IncrementProcessed()
IncProcessed(w) ==
    /\ wpc[w] = "incp"
    /\ state' = IncrementProcessed(state)
    /\ counted' = [counted EXCEPT ![wfile[w]] = @ + 1]
    /\ wpc' = [wpc EXCEPT ![w] = "send"]
    /\ UNCHANGED <<callerVars, run, callVars>>
    /\ UNCHANGED <<inputVars, tree, fs, duplicates, mapLock, logFile,
                   pipeVars, localVars, faults, placed, placedAs, notified,
                   failed, wfailures, sends, decisions>>

\* messenger.Send(ProgressTickMsg{}), and back to the head of the loop
Send(w) ==
    /\ wpc[w] = "send"
    /\ notified' = [notified EXCEPT ![wfile[w]] = @ + 1]
    /\ sends' = sends + 1
    /\ wpc' = [wpc EXCEPT ![w] = "recv"]
    /\ wfile' = [wfile EXCEPT ![w] = 0]
    /\ wbranch' = [wbranch EXCEPT ![w] = ""]
    /\ wpaths' = [wpaths EXCEPT ![w] = <<>>]
    /\ wdest' = [wdest EXCEPT ![w] = ""]
    /\ werr' = [werr EXCEPT ![w] = FALSE]
    /\ UNCHANGED <<callerVars, run, callVars>>
    /\ UNCHANGED <<inputVars, tree, fs, state, duplicates, mapLock, logFile,
                   pipeVars, faults, placed, placedAs, counted, failed,
                   wfailures, decisions>>

(***************************************************************************)
(* The State under concurrent callers.  A method takes State.mu, reads     *)
(* and writes fields and releases the mutex; a caller is inside at most    *)
(* one method.  The reads and the writes of a method are separate steps.   *)
(***************************************************************************)
\* the variables of the pipeline but for the State
pipelineVars ==
    <<moveFiles, tree, content, fs, duplicates, mapLock, logFile, closed,
      mainpc, treeChanged, handed, walkErr, result, logOpen, wpc, wfile,
      wbranch, wpaths, wdest, werr, faults, placed, placedAs, counted,
      notified, failed, wfailures, sends, decisions>>

\* all the variables but those of the State and its callers
runVars == <<pipelineVars, run, callVars>>

\* the methods that take the mutex for writing
WriteMethods == {"processed", "duplicates", "errorCount", "message"}

\* the calls begun so far
Begun ==
    calls.processed + calls.duplicates + calls.errorCount + calls.message
        + calls.status + Cardinality({c \in Callers : cpc[c] # "idle"})

\* a mutex that excludes no one
MuFreeAlways == TRUE

\* s.mu.Lock() returns when no caller holds the mutex
MuFree == mu.writer = 0 /\ mu.readers = {}

\* a Status that takes no read lock
RLockNone(c) == mu

\* s.mu.RLock() by caller c
RLock(c) == [mu EXCEPT !.readers = @ \cup {c}]

\* what method writes into State value s
Apply(method, s) ==
    CASE method = "processed" -> IncrementProcessed(s)
      [] method = "duplicates" -> IncrementDuplicates(s)
      [] method = "errorCount" -> IncrementError(s)
      [] method = "message" -> UpdateMessage(s, "New message")

\* the State after a method that read the value old and computed new has
\* stored the fields it changed
Stored(cur, old, new) ==
    [k \in DOMAIN cur |-> IF new[k] # old[k] THEN new[k] ELSE cur[k]]

\* return *s: the copy, its first fields read in one step and the others
\* in the next
Status(first, second) ==
    [processed |-> first.processed, total |-> first.total,
     message |-> first.message, duplicates |-> second.duplicates,
     errorCount |-> second.errorCount]

\* IncrementProcessed, IncrementDuplicates, IncrementError, UpdateMessage:
\* s.mu.Lock() and the read of the field
Lock(c, method) ==
    /\ cpc[c] = "idle"
    /\ Begun < MaxCalls
    /\ method \in WriteMethods
    /\ MuFree
    /\ mu' = [mu EXCEPT !.writer = c]
    /\ cpc' = [cpc EXCEPT ![c] = "locked"]
    /\ cop' = [cop EXCEPT ![c] = method]
    /\ ctmp' = [ctmp EXCEPT ![c] = state]
    /\ UNCHANGED <<runVars, state, snapshot, calls, held>>

\* the write of the field and the deferred s.mu.Unlock()
WriteUnlock(c) ==
    /\ cpc[c] = "locked"
    /\ state' = Stored(state, ctmp[c], Apply(cop[c], ctmp[c]))
    /\ held' = held \cup {state'}
    /\ mu' = [mu EXCEPT !.writer = IF @ = c THEN 0 ELSE @]
    /\ calls' = [calls EXCEPT ![cop[c]] = @ + 1]
    /\ cpc' = [cpc EXCEPT ![c] = "idle"]
    /\ cop' = [cop EXCEPT ![c] = ""]
    /\ ctmp' = [ctmp EXCEPT ![c] = NoRead]
    /\ UNCHANGED <<runVars, snapshot>>

\* Status: s.mu.RLock() and the read of the first fields
StatusBegin(c) ==
    /\ cpc[c] = "idle"
    /\ Begun < MaxCalls
    /\ mu.writer = 0
    /\ mu' = RLock(c)
    /\ cpc' = [cpc EXCEPT ![c] = "reading"]
    /\ cop' = [cop EXCEPT ![c] = "status"]
    /\ ctmp' = [ctmp EXCEPT ![c] = state]
    /\ UNCHANGED <<runVars, state, snapshot, calls, held>>

\* Status: the read of the other fields, the deferred s.mu.RUnlock() and
\* the return of the copy
StatusEnd(c) ==
    /\ cpc[c] = "reading"
    /\ snapshot' = [snapshot EXCEPT ![c] =
            [taken |-> TRUE, returned |-> Status(ctmp[c], state),
             copy |-> Status(ctmp[c], state)]]
    /\ mu' = [mu EXCEPT !.readers = @ \ {c}]
    /\ calls' = [calls EXCEPT !.status = @ + 1]
    /\ cpc' = [cpc EXCEPT ![c] = "idle"]
    /\ cop' = [cop EXCEPT ![c] = ""]
    /\ ctmp' = [ctmp EXCEPT ![c] = NoRead]
    /\ UNCHANGED <<runVars, state, held>>

\* the caller assigns to a field of the copy it was returned
MutateCopy(c) ==
    /\ cpc[c] = "idle"
    /\ snapshot[c].taken
    /\ snapshot[c].copy = snapshot[c].returned
    /\ snapshot' = [snapshot EXCEPT ![c].copy.processed = @ + 10]
    /\ UNCHANGED <<runVars, state, mu, cpc, cop, ctmp, calls, held>>

(***************************************************************************)
(* The specifications.                                                     *)
(***************************************************************************)
Next ==
    \/ TreeChange
    \/ \E ok \in BOOLEAN : Setup(ok)
    \/ \E f \in AllFiles, w \in Workers : Handoff(f, w)
    \/ \E failure \in BOOLEAN : CloseChan(failure)
    \/ WaitReturn
    \/ \E w \in Workers : WorkerExit(w)
    \/ \E w \in Workers, ok \in BOOLEAN : Prepare(w, ok)
    \/ \E w \in Workers, ok \in BOOLEAN : LockCheck(w, ok)
    \/ \E w \in Workers, out \in Outcomes : Place(w, out)
    \/ \E w \in Workers, logged \in BOOLEAN : LogWrite(w, logged)
    \/ \E w \in Workers : IncError(w)
    \/ \E w \in Workers : IncProcessed(w)
    \/ \E w \in Workers : Send(w)

Spec == Init /\ [][Next]_vars

\* the runs in which every write to the duplicate log succeeds; every
\* other call can fail
NextLogged ==
    \/ TreeChange
    \/ \E ok \in BOOLEAN : Setup(ok)
    \/ \E f \in AllFiles, w \in Workers : Handoff(f, w)
    \/ \E failure \in BOOLEAN : CloseChan(failure)
    \/ WaitReturn
    \/ \E w \in Workers : WorkerExit(w)
    \/ \E w \in Workers, ok \in BOOLEAN : Prepare(w, ok)
    \/ \E w \in Workers, ok \in BOOLEAN : LockCheck(w, ok)
    \/ \E w \in Workers, out \in Outcomes : Place(w, out)
    \/ \E w \in Workers : LogWrite(w, TRUE)
    \/ \E w \in Workers : IncError(w)
    \/ \E w \in Workers : IncProcessed(w)
    \/ \E w \in Workers : Send(w)

SpecLogged == Init /\ [][NextLogged]_vars

\* a step of main, of the walker or of a worker that is not waiting for
\* the lock; the walk fails or not as the file system decides, so only the
\* end of a walk that has not failed is a step the walker takes of itself
Proceed ==
    \/ \E ok \in BOOLEAN : Setup(ok)
    \/ \E f \in AllFiles, w \in Workers : Handoff(f, w)
    \/ CloseChan(FALSE)
    \/ WaitReturn
    \/ \E w \in Workers : WorkerExit(w)
    \/ \E w \in Workers, ok \in BOOLEAN : Prepare(w, ok)
    \/ \E w \in Workers, out \in Outcomes : Place(w, out)
    \/ \E w \in Workers, logged \in BOOLEAN : LogWrite(w, logged)
    \/ \E w \in Workers : IncError(w)
    \/ \E w \in Workers : IncProcessed(w)
    \/ \E w \in Workers : Send(w)

\* mapLock.Lock() returns to a worker that waits for the lock: the worker
\* leaves the call when the lock is free
LockGranted ==
    \E w \in Workers :
        /\ wpc[w] = "lock"
        /\ LockAvailable
        /\ wpc' \in {[wpc EXCEPT ![w] = pc] : pc \in {"place", "incerr"}}

\* the runs over files that have a date: the three error returns under
\* the lock can all be taken
InitFair == Init /\ \A f \in AllFiles : content[f].date = SomeDate

\* The run under a scheduler that is fair to the goroutines: main, the
\* walker and the workers are not left waiting for ever when they can take
\* a step, and a worker that waits for a free lock gets it.  Nothing is
\* assumed of the user who changes the source tree nor of a walk that
\* could fail.
SpecFair ==
    /\ InitFair
    /\ [][Next]_vars
    /\ WF_vars(Proceed)
    /\ WF_wpc(LockGranted)

SpecRunMode == InitRunMode /\ [][Next]_vars

SpecExisting == InitExisting /\ [][Next]_vars

\* CountFiles called on the source tree as the run has left it, the root
\* still there or removed
CountFilesCall(root) ==
    /\ mainpc = "done"
    /\ op.pc = "idle"
    /\ op' = [op EXCEPT !.name = "CountFiles", !.pc = "returned",
                        !.root = root,
                        !.total = CountFiles(root, tree).total,
                        !.err = CountFiles(root, tree).err]
    /\ UNCHANGED <<pipelineVars, state, callerVars, run, perm, resolve,
                   program>>

NextCount ==
    \/ Next
    \/ \E root \in BOOLEAN : CountFilesCall(root)

\* the count does not read the files: every file has a date
InitCount == Init /\ \A f \in AllFiles : content[f].date = SomeDate

SpecCount == InitCount /\ [][NextCount]_vars

(***************************************************************************)
(* copyFile and moveFile called on their own, as the tests call them: one  *)
(* call on a source file that exists or not and a destination path that    *)
(* is free or holds a file.  copyFile is taken one system call at a time.  *)
(***************************************************************************)
\* the permission os.Create passes to OpenFile: 0666
CreatePerm == 438
\* the modes of the source file: 0644, 0600
SrcModes == {420, 384}
\* the umask of the process: 022, 077
Umasks == {18, 63}
\* the modes of a file that is already at the destination: 0644, 0664
OldModes == {420, 436}
\* the destination path of the call
CallDest == "dest/copy.jpg"

RECURSIVE AndNot(_, _)
\* a &^ b on the permission bits
AndNot(a, b) ==
    IF a = 0 THEN 0
    ELSE 2 * AndNot(a \div 2, b \div 2)
            + (IF a % 2 = 1 /\ b % 2 = 0 THEN 1 ELSE 0)

\* the mode of a file os.Create has made
CreatedMode(umask) == AndNot(CreatePerm, umask)

\* the variables a call leaves alone
uncalledVars ==
    <<moveFiles, content, state, duplicates, mapLock, logFile, pipeVars, wpc,
      localVars, faults, histVars, callerVars, run, resolve, program>>

\* a copyFile that has created the destination before it opens the source
AfterOpenErrorCreated(fsys, dest) ==
    (dest :> [sum |-> "", full |-> FALSE]) @@ fsys

\* the destination tree when os.Open of the source has failed: copyFile
\* returns before os.Create
AfterOpenError(fsys, dest) == fsys

\* the call has returned err, the system call named having failed
Failed(at) == [op EXCEPT !.pc = "returned", !.err = TRUE, !.failedAt = at]

\* copyFile(src, dest): os.Open(src)
CopyOpen(f, ok) ==
    /\ op.pc = "idle"
    /\ LET call == [op EXCEPT !.name = "copyFile", !.f = f,
                              !.dest = CallDest,
                              !.before = [fs |-> fs, tree |-> tree,
                                          perm |-> perm]]
       IN  IF ok /\ f \in tree
           THEN /\ op' = [call EXCEPT !.pc = "create"]
                /\ fs' = fs
           ELSE /\ op' = [call EXCEPT !.pc = "returned", !.err = TRUE,
                                      !.failedAt = "open"]
                /\ fs' = AfterOpenError(fs, CallDest)
    /\ UNCHANGED <<uncalledVars, tree, perm>>

\* os.Create(dest): the file is made with 0666 less the umask, or the file
\* that is there is truncated and keeps its mode
CopyCreate(ok) ==
    /\ op.name = "copyFile" /\ op.pc = "create"
    /\ IF ok
       THEN /\ fs' = (op.dest :> [sum |-> content[op.f].sum, full |-> FALSE])
                        @@ fs
            /\ perm' = IF op.dest \in DOMAIN perm THEN perm
                       ELSE (op.dest :> CreatedMode(op.umask)) @@ perm
            /\ op' = [op EXCEPT !.pc = "copy"]
       ELSE /\ op' = Failed("create")
            /\ UNCHANGED <<fs, perm>>
    /\ UNCHANGED <<uncalledVars, tree>>

\* io.Copy(destFile, sourceFile): all of the content is written, or the
\* copy fails with a part of it written
CopyWrite(ok) ==
    /\ op.name = "copyFile" /\ op.pc = "copy"
    /\ IF ok
       THEN /\ fs' = [fs EXCEPT ![op.dest].full = TRUE]
            /\ op' = [op EXCEPT !.pc = "stat"]
       ELSE /\ op' = Failed("copy")
            /\ UNCHANGED fs
    /\ UNCHANGED <<uncalledVars, tree, perm>>

\* os.Stat(src)
CopyStat(ok) ==
    /\ op.name = "copyFile" /\ op.pc = "stat"
    /\ op' = IF ok THEN [op EXCEPT !.pc = "chmod", !.info = op.srcMode]
             ELSE Failed("stat")
    /\ UNCHANGED <<uncalledVars, tree, fs, perm>>

\* os.Chmod(dest, sourceInfo.Mode()) and return nil
CopyChmod(ok) ==
    /\ op.name = "copyFile" /\ op.pc = "chmod"
    /\ IF ok
       THEN /\ perm' = [perm EXCEPT ![op.dest] = op.info]
            /\ op' = [op EXCEPT !.pc = "returned"]
       ELSE /\ op' = Failed("chmod")
            /\ UNCHANGED perm
    /\ UNCHANGED <<uncalledVars, tree, fs>>

\* moveFile(src, dest): os.Rename, which moves the file with its mode or
\* fails and leaves both paths as they were
MoveFileCall(f, out) ==
    LET r == moveFile(f, CallDest, out)
        renamed == f \in tree /\ out = "ok"
    IN  /\ op.pc = "idle"
        /\ fs' = r.fs
        /\ tree' = r.tree
        /\ perm' = IF r.err THEN perm ELSE (CallDest :> op.srcMode) @@ perm
        /\ op' = [op EXCEPT !.name = "moveFile", !.pc = "returned",
                            !.f = f, !.dest = CallDest, !.err = r.err,
                            !.failedAt = IF renamed THEN "" ELSE "rename",
                            !.before = [fs |-> fs, tree |-> tree,
                                        perm |-> perm]]
        /\ UNCHANGED uncalledVars

\* the destination path is free or holds a file of another content
InitCalls ==
    /\ tree \in InitTrees
    /\ content \in RunContents
    /\ InitRest
    /\ moveFiles = FALSE
    /\ run = [n |-> 1, before |-> <<>>]
    /\ \/ fs = <<>> /\ perm = <<>>
       \/ \E m \in OldModes :
            fs = (CallDest :> OldFile) /\ perm = (CallDest :> m)
    /\ op \in {NoCall(m, u) : m \in SrcModes, u \in Umasks}
    /\ InitUncalled

NextCalls ==
    \/ \E f \in Files, ok \in BOOLEAN : CopyOpen(f, ok)
    \/ \E ok \in BOOLEAN : CopyCreate(ok)
    \/ \E ok \in BOOLEAN : CopyWrite(ok)
    \/ \E ok \in BOOLEAN : CopyStat(ok)
    \/ \E ok \in BOOLEAN : CopyChmod(ok)
    \/ \E f \in Files, out \in Outcomes : MoveFileCall(f, out)

SpecCalls == InitCalls /\ [][NextCalls]_vars

\* A run over the largest tree in which the set-up, the walk and every
\* call processFile makes on a file succeed; a write to the log may fail.
InitClean ==
    /\ tree = AllFiles
    /\ content \in ContentAssignments
    /\ InitRest
    /\ InitAlone
    /\ fs = <<>>
    /\ moveFiles = FALSE

NextClean ==
    \/ Setup(TRUE)
    \/ \E f \in AllFiles, w \in Workers : Handoff(f, w)
    \/ CloseChan(FALSE)
    \/ WaitReturn
    \/ \E w \in Workers : WorkerExit(w)
    \/ \E w \in Workers : Prepare(w, TRUE)
    \/ \E w \in Workers : LockCheck(w, TRUE)
    \/ \E w \in Workers : Place(w, "ok")
    \/ \E w \in Workers, logged \in BOOLEAN : LogWrite(w, logged)
    \/ \E w \in Workers : IncProcessed(w)
    \/ \E w \in Workers : Send(w)

SpecClean == InitClean /\ [][NextClean]_vars

\* an index that is carried from one run to the next
FreshIndexKept(old) == old

\* duplicates := make(map[string][]string): the index of a run is made
\* empty by ProcessFiles, whatever an earlier run recorded
FreshIndex(old) == <<>>

\* The program is run again over the same source and destination: main
\* counts the files and makes a State, ProcessFiles makes its index, its
\* channel and its workers.  The destination tree is as the first run left
\* it and the log, opened with O_APPEND, keeps its lines.
Rerun ==
    /\ mainpc = "done"
    /\ result = "nil"
    /\ run.n = 1
    /\ run' = [n |-> 2, before |-> fs]
    /\ state' = NewState(CountFiles(TRUE, tree).total)
    /\ held' = {NewState(CountFiles(TRUE, tree).total)}
    /\ duplicates' = FreshIndex(duplicates)
    /\ mapLock' = {}
    /\ closed' = FALSE
    /\ logOpen' = FALSE
    /\ mainpc' = "counted"
    /\ treeChanged' = FALSE
    /\ handed' = {}
    /\ walkErr' = FALSE
    /\ result' = ""
    /\ wpc' = [w \in Workers |-> "none"]
    /\ wfile' = [w \in Workers |-> 0]
    /\ wbranch' = [w \in Workers |-> ""]
    /\ wpaths' = [w \in Workers |-> <<>>]
    /\ wdest' = [w \in Workers |-> ""]
    /\ werr' = [w \in Workers |-> FALSE]
    /\ faults' = 0
    /\ placed' = [f \in AllFiles |-> ""]
    /\ placedAs' = [f \in AllFiles |-> ""]
    /\ counted' = [f \in AllFiles |-> 0]
    /\ notified' = [f \in AllFiles |-> 0]
    /\ failed' = {}
    /\ wfailures' = [w \in Workers |-> 0]
    /\ sends' = 0
    /\ decisions' = <<>>
    /\ UNCHANGED <<inputVars, tree, fs, logFile, mu, cpc, cop, ctmp,
                   snapshot, calls, callVars>>

\* two runs in which nothing fails
NextTwoRuns ==
    \/ Setup(TRUE)
    \/ \E f \in AllFiles, w \in Workers : Handoff(f, w)
    \/ CloseChan(FALSE)
    \/ WaitReturn
    \/ \E w \in Workers : WorkerExit(w)
    \/ \E w \in Workers : Prepare(w, TRUE)
    \/ \E w \in Workers : LockCheck(w, TRUE)
    \/ \E w \in Workers : Place(w, "ok")
    \/ \E w \in Workers : LogWrite(w, TRUE)
    \/ \E w \in Workers : IncProcessed(w)
    \/ \E w \in Workers : Send(w)
    \/ Rerun

\* the first of two runs: the last file of the tree is a copy of the first
\* under another name or in another folder
InitTwoRuns ==
    /\ tree = AllFiles
    /\ content \in RunContents
    /\ InitRest
    /\ InitAlone
    /\ fs = <<>>
    /\ moveFiles = FALSE

SpecTwoRuns == InitTwoRuns /\ [][NextTwoRuns]_vars

(***************************************************************************)
(* The creation date of processFile, resolved for one path on its own: the *)
(* path has one of a set of extensions and each decoder answers in one of  *)
(* the ways it can.                                                        *)
(***************************************************************************)
LowerLetters == "abcdefghijklmnopqrstuvwxyz"
UpperLetters == "ABCDEFGHIJKLMNOPQRSTUVWXYZ"

\* unicode.ToLower of a character of a path
ToLowerChar(c) ==
    IF \E i \in 1 .. Len(UpperLetters) : Char(UpperLetters, i) = c
    THEN LET i == CHOOSE i \in 1 .. Len(UpperLetters) :
                        Char(UpperLetters, i) = c
         IN  Char(LowerLetters, i)
    ELSE c

RECURSIVE ToLower(_)
\* strings.ToLower
ToLower(s) ==
    IF s = "" THEN ""
    ELSE ToLowerChar(Char(s, 1)) \o ToLower(SubSeq(s, 2, Len(s)))

\* strings.EqualFold on the characters of a path: equal but for the case
\* of the letters
EqualFold(s, t) ==
    /\ Len(s) = Len(t)
    /\ \A i \in 1 .. Len(s) :
            ToLowerChar(Char(s, i)) = ToLowerChar(Char(t, i))

videoExtensions == <<".mp4", ".avi", ".mov", ".mkv", ".wmv">>

\* an isVideoFile that compares the extension as it is written
isVideoFileExact(extension) ==
    \E i \in 1 .. Len(videoExtensions) : extension = videoExtensions[i]

\* isVideoFile(extension)
isVideoFile(extension) ==
    \E i \in 1 .. Len(videoExtensions) :
        EqualFold(extension, videoExtensions[i])

\* the paths processFile is given
DatedPaths ==
    {"src/a.mp4", "src/a.MP4", "src/a.avi", "src/a.Avi", "src/a.mov",
     "src/a.MoV", "src/a.mkv", "src/a.MKV", "src/a.wmv", "src/a.WMV",
     "src/a.jpg", "src/a.JPG", "src/a.png", "src/a", "src/mp4",
     "src/a.mp4.txt", "src/a.txt.mp4", "src/a.mp", "src/a.mp4x",
     "src/a.mov/b", "src/a."}

\* what yami.GetMediaInfo and the track it returns answer: a tagged date, an
\* error, no video track, no tagged date, a tagged date of another format
VideoAnswers == {"date", "error", "notrack", "notag", "format"}
\* what exif.Decode and DateTime answer
PhotoAnswers == {"date", "nodecode", "nodatetime"}

\* getVideoCreationDate(filePath): the media information is asked for when
\* the extension of the path as it is written is a video extension
getVideoCreationDate(path, answer) ==
    IF ~isVideoFile(Ext(path))
    THEN [date |-> ZeroTime, err |-> TRUE, used |-> ""]
    ELSE [date |-> IF answer = "date" THEN SomeDate ELSE ZeroTime,
          err |-> answer # "date", used |-> "video"]

\* getPhotoCreationDate(file, date)
getPhotoCreationDate(answer) ==
    [date |-> IF answer = "date" THEN SomeDate ELSE ZeroTime,
     err |-> FALSE, used |-> "photo"]

\* a processFile that returns the error of getVideoCreationDate
VideoErrorReturned(r) == r.err

\* processFile on an error of getVideoCreationDate: date = time.Time{} and
\* processFile goes on to the checksum
VideoError(r) == FALSE

\* processFile from the extension to the date
ResolveDate ==
    /\ resolve.pc = "idle"
    /\ LET extension == ToLower(Ext(resolve.path))
           r == IF isVideoFile(extension)
                THEN getVideoCreationDate(resolve.path, resolve.video)
                ELSE getPhotoCreationDate(resolve.photo)
       IN  resolve' = [resolve EXCEPT
                        !.pc = IF VideoError(r) THEN "returned" ELSE "seek",
                        !.used = r.used,
                        !.date = IF r.err THEN ZeroTime ELSE r.date,
                        !.err = VideoError(r)]
    /\ UNCHANGED <<pipelineVars, state, callerVars, run, perm, op, program>>

InitDate ==
    /\ tree = Files
    /\ content =
        [f \in AllFiles |-> [sum |-> FirstChecksum, date |-> ZeroTime]]
    /\ InitRest
    /\ fs = <<>>
    /\ moveFiles = FALSE
    /\ run = [n |-> 1, before |-> <<>>]
    /\ perm = <<>>
    /\ op = NoCall(420, 18)
    /\ program = NoProgram
    /\ resolve \in {[NoResolve EXCEPT !.path = p, !.video = v, !.photo = e] :
                        p \in DatedPaths, v \in VideoAnswers,
                        e \in PhotoAnswers}

SpecDate == InitDate /\ [][ResolveDate]_vars

(***************************************************************************)
(* The messenger of main: teaMessenger.Send passes a message to Send of    *)
(* the tea.Program, the tick of ProcessFiles as a message of the tui       *)
(* package.                                                                *)
(***************************************************************************)
\* the messages Send is given: the tick of ProcessFiles and messages of
\* other types
Messages == {"photo.ProgressTickMsg", "tea.KeyMsg", "tea.WindowSizeMsg"}

\* an adapter that passes every message on as it is
ForwardedUnchanged(msg) == <<msg>>

\* the messages m.p.Send is called with for one call of Send(msg)
Forwarded(msg) ==
    IF msg = "photo.ProgressTickMsg" THEN <<"tui.ProgressUpdateMsg">>
    ELSE <<msg>>

\* func (m teaMessenger) Send(msg interface{})
MessengerSend(msg) ==
    /\ Len(program.sent) < MaxSends
    /\ program' = [sent |-> Append(program.sent, msg),
                   inbox |-> program.inbox \o Forwarded(msg)]
    /\ UNCHANGED <<pipelineVars, state, callerVars, run, perm, op, resolve>>

InitMessenger ==
    /\ tree = Files
    /\ content =
        [f \in AllFiles |-> [sum |-> FirstChecksum, date |-> ZeroTime]]
    /\ InitRest
    /\ fs = <<>>
    /\ moveFiles = FALSE
    /\ InitAlone

NextMessenger == \E msg \in Messages : MessengerSend(msg)

SpecMessenger == InitMessenger /\ [][NextMessenger]_vars

\* The State of a run that has been created and not yet started, called by
\* the callers alone.
InitState ==
    /\ Init
    /\ tree = Files
    /\ content =
        [f \in AllFiles |-> [sum |-> FirstChecksum, date |-> ZeroTime]]

NextState ==
    \/ \E c \in Callers, method \in WriteMethods : Lock(c, method)
    \/ \E c \in Callers : WriteUnlock(c)
    \/ \E c \in Callers : StatusBegin(c)
    \/ \E c \in Callers : StatusEnd(c)
    \/ \E c \in Callers : MutateCopy(c)

SpecState == InitState /\ [][NextState]_vars

(***************************************************************************)
(* Properties.                                                             *)
(***************************************************************************)
Done == mainpc = "done"

\* the buckets of the destination tree
InDuplicates(path) == SplitDir(path) = duplicatesDir \o "/"
InNoData(path) == SplitDir(path) = noDataDir \o "/"
InDated(path) ==
    \E d \in Dates \ {ZeroTime} :
        SplitDir(path) = destDir \o "/" \o Format2006(d) \o "/"
                            \o Format01(d) \o "/" \o Format02(d) \o "/"

\* the destination tree holds the complete content of f at the path f was
\* transferred to
Holds(f) ==
    /\ placed[f] \in DOMAIN fs
    /\ fs[placed[f]] = [sum |-> content[f].sum, full |-> TRUE]

\* the workers inside the critical section on the canonical branch of c
InCanonicalBranch(c) ==
    {w \in Workers : /\ wpc[w] = "place"
                     /\ wbranch[w] = "canonical"
                     /\ calculateChecksum(wfile[w]) = c}

\* the files of content c that were transferred as the canonical copy
CanonicalCopies(c) ==
    {f \in AllFiles : placedAs[f] = "canonical" /\ content[f].sum = c}

\* C1: for every checksum, at most one worker is on the canonical branch
\* of processFile, none is once a canonical copy of that content has been
\* transferred, and at most one canonical copy is ever produced.
C1_OneCanonical ==
    \A c \in Checksums :
        Cardinality(InCanonicalBranch(c)) + Cardinality(CanonicalCopies(c))
            <= 1

\* two workers hold files of the same content: one is on the canonical
\* branch inside the critical section, the other waits for the lock
C1_Witness ==
    \E w1, w2 \in Workers :
        /\ wpc[w1] = "place" /\ wbranch[w1] = "canonical"
        /\ wpc[w2] = "lock"
        /\ calculateChecksum(wfile[w1]) = calculateChecksum(wfile[w2])

\* the files of content c whose transfer succeeded
Transferred(c) ==
    {f \in AllFiles : placedAs[f] # "" /\ content[f].sum = c}

\* C2: when ProcessFiles has returned, every file handed off either failed
\* or was transferred, and of the transferred files of one content exactly
\* one is in the dated archive or the no-data store and all the others are
\* in the duplicates store.
C2_OneCanonicalRestDuplicates ==
    Done =>
        /\ \A f \in handed : (f \in failed) # (placedAs[f] # "")
        /\ \A c \in Checksums :
            LET S == Transferred(c)
                A == {f \in S : InDated(placed[f]) \/ InNoData(placed[f])}
            IN  /\ \A f \in S : Holds(f)
                /\ S # {} => Cardinality(A) = 1
                /\ \A f \in S \ A : InDuplicates(placed[f])

\* a run has returned in which every file had the same content and every
\* transfer succeeded
C2_Witness ==
    /\ Done
    /\ \E c \in Checksums : Transferred(c) = Files

\* the files that were transferred to the duplicates store
PlacedDuplicates == {f \in AllFiles : placedAs[f] = "duplicate"}

\* the first path the index holds for the content of f
FirstPath(f) == duplicates[content[f].sum][1]

\* C3: when ProcessFiles has returned, the duplicate log has exactly one
\* line for every file transferred as a duplicate, and that line names the
\* first path of the index entry, at which the canonical copy exists.
C3_LogExact ==
    Done =>
        /\ Len(logFile) = Cardinality(PlacedDuplicates)
        /\ \A f \in PlacedDuplicates :
            /\ Cardinality({i \in 1 .. Len(logFile) :
                    logFile[i] = LogLine(SrcPath(f), FirstPath(f))}) = 1
            /\ FirstPath(f) \in DOMAIN fs
            /\ fs[FirstPath(f)] = [sum |-> content[f].sum, full |-> TRUE]

\* C4, as stated: when ProcessFiles has returned, processed equals total.
C4_ProcessedIsTotal == Done => state.processed = state.total

\* C4, amended: when ProcessFiles has returned nil and the source tree did
\* not change between CountFiles and the walk, processed equals total,
\* whether or not processFile failed for some files.
C4_ProcessedIsTotalUnchangedTree ==
    Done /\ result = "nil" /\ ~treeChanged =>
        state.processed = state.total

\* such a run has returned, processFile having failed for a file
C4_Witness ==
    /\ Done /\ result = "nil" /\ ~treeChanged
    /\ failed # {}
    /\ state.total = NumFiles
    /\ state.processed = state.total

\* C5, as stated: processed never decreases and never exceeds total.
C5_MonotoneBoundedByTotal ==
    /\ [](state.processed <= state.total)
    /\ [][state'.processed >= state.processed]_vars

\* C5, amended: processed never decreases and never exceeds the number of
\* paths the walker has handed off; it never exceeds total when the
\* source tree did not change between CountFiles and the walk.
C5_MonotoneBoundedByHanded ==
    /\ [](/\ state.processed <= Cardinality(handed)
          /\ ~treeChanged => state.processed <= state.total)
    /\ [][state'.processed >= state.processed]_vars

\* processed has reached the total of an unchanged tree
C5_Witness ==
    /\ ~treeChanged
    /\ state.total = NumFiles
    /\ state.processed = state.total

\* C6: messenger.Send is called at most once for a path, only for a path
\* that was handed off and only after IncrementProcessed for it; when
\* ProcessFiles has returned it was called exactly once for every path
\* handed off, failed or not, and the number of calls equals processed
\* and the number of paths handed off.
C6_OneSendPerPath ==
    /\ \A f \in AllFiles :
        /\ notified[f] <= counted[f]
        /\ counted[f] <= 1
        /\ f \notin handed => counted[f] = 0
    /\ Done =>
        /\ \A f \in handed : notified[f] = 1
        /\ sends = state.processed
        /\ sends = Cardinality(handed)

\* a run has returned in which processFile failed for one path and
\* succeeded for another
C6_Witness ==
    /\ Done
    /\ failed # {}
    /\ handed \ failed # {}
    /\ sends = Cardinality(handed)

\* the workers that have a failed processFile not yet counted as an error
AtIncError == {w \in Workers : wpc[w] = "incerr"}

\* C7: every error processFile returns is counted exactly once in
\* errorCount, the failed path is counted in processed and notified, the
\* worker leaves its loop only when the channel is closed, the channel is
\* closed only by the end of the walk, and ProcessFiles returns an error
\* only for a failed set-up or a failed walk.
C7_ErrorIsolated ==
    /\ state.errorCount + Cardinality(AtIncError) = Cardinality(failed)
    /\ \A w \in Workers : wpc[w] = "exited" => closed
    /\ closed => walkErr \/ tree \ handed = {}
    /\ Done =>
        /\ \A f \in failed : counted[f] = 1 /\ notified[f] = 1
        /\ result # "nil" => result = "setup" \/ walkErr

\* a worker whose processFile failed for one path is processing another
\* path, the channel still open
C7_Witness ==
    \E w \in Workers :
        /\ wfailures[w] > 0
        /\ wpc[w] = "process"
        /\ wfile[w] \notin failed
        /\ ~closed
        /\ state.errorCount = 1

\* C8: the first path of an index entry is the path the canonical copy of
\* that content was transferred to; a step never removes a checksum from
\* the index and changes an entry only by appending to it.
C8_FirstPathStable ==
    /\ [](\A c \in DOMAIN duplicates :
            \E f \in CanonicalCopies(c) : duplicates[c][1] = placed[f])
    /\ [][\A c \in DOMAIN duplicates :
            /\ c \in DOMAIN duplicates'
            /\ Len(duplicates'[c]) >= Len(duplicates[c])
            /\ SubSeq(duplicates'[c], 1, Len(duplicates[c])) = duplicates[c]
         ]_vars

\* a duplicate has been recorded in an entry, after its canonical path
C8_Witness ==
    \E c \in DOMAIN duplicates :
        /\ Len(duplicates[c]) >= 2
        /\ \E f \in CanonicalCopies(c) : duplicates[c][1] = placed[f]

\* C9: every path in the index is a destination path: the first of an
\* entry is where the canonical copy was written, every later one is the
\* path in the duplicates store a duplicate was transferred to.
C9_IndexHoldsDestinations ==
    \A c \in DOMAIN duplicates :
        /\ \E f \in CanonicalCopies(c) : duplicates[c][1] = placed[f]
        /\ \A i \in 2 .. Len(duplicates[c]) :
            /\ InDuplicates(duplicates[c][i])
            /\ \E f \in PlacedDuplicates : duplicates[c][i] = placed[f]

NewlyPlaced == {f \in AllFiles : placedAs[f] = "" /\ placedAs'[f] # ""}

\* C11: a file processFile handled without error lies in exactly one of
\* the three buckets, and the step that transferred it wrote exactly one
\* new file: in the duplicates store if the checksum of the file was in the
\* index when the step began, whatever the date; otherwise in the dated
\* archive if a date was resolved, otherwise in the no-data store.  A file
\* once transferred is not transferred again.
C11_OneBucketOneTransfer ==
    /\ [](\A f \in AllFiles : placedAs[f] # "" =>
            /\ Holds(f)
            /\ Cardinality({i \in 1 .. 3 :
                    <<InDuplicates(placed[f]), InNoData(placed[f]),
                      InDated(placed[f])>>[i]}) = 1)
    /\ [][/\ \A f \in NewlyPlaced :
                /\ placed'[f] \notin DOMAIN fs
                /\ DOMAIN fs' = DOMAIN fs \cup {placed'[f]}
                /\ IF content[f].sum \in DOMAIN duplicates
                   THEN InDuplicates(placed'[f])
                   ELSE IF content[f].date # ZeroTime
                        THEN InDated(placed'[f])
                        ELSE InNoData(placed'[f])
          /\ \A f \in AllFiles : placedAs[f] # "" =>
                placedAs'[f] = placedAs[f] /\ placed'[f] = placed[f]
         ]_vars

\* a dated file lies in the duplicates store, its content having been
\* registered by the canonical copy in the dated archive
C11_Witness ==
    \E f, g \in AllFiles :
        /\ placedAs[f] = "duplicate" /\ content[f].date # ZeroTime
        /\ InDuplicates(placed[f])
        /\ placedAs[g] = "canonical" /\ InDated(placed[g])

\* the stem and the extension of the name of source file f
Stem(f) == IF SrcName(f) = "x.jpg" THEN "x" ELSE "x_1"
Extension(f) == ".jpg"

\* dest/<year, 4 digits>/<month, 2 digits>/<day, 2 digits>/
\* <stem>_<first 8 hex characters of the checksum><ext>, for a file dated
\* 2020-05-01 whose checksum begins with abcdef01
ExpectedDated(f) ==
    "dest/2020/05/01/" \o Stem(f) \o "_" \o "abcdef01" \o Extension(f)

\* C12: the step that transfers a file with a resolved date as the
\* canonical copy of its content writes it to
\* dest/YYYY/MM/DD/<stem>_<checksum[:8]><ext> when no file exists at that
\* path as the step begins.
C12_DatedPath ==
    [][\A f \in NewlyPlaced :
            /\ placedAs'[f] = "canonical"
            /\ content[f].date = SomeDate
            /\ ExpectedDated(f) \notin DOMAIN fs
            => placed'[f] = ExpectedDated(f)
      ]_vars

\* a dated canonical copy lies at that path
C12_Witness ==
    \E f \in AllFiles :
        /\ placedAs[f] = "canonical"
        /\ content[f].date = SomeDate
        /\ placed[f] = ExpectedDated(f)
        /\ Holds(f)

\* dest/nodata/<original file name>
ExpectedNoData(f) == "dest/nodata/" \o SrcName(f)

\* the files for which date resolution yields no date
Undated == {f \in AllFiles : content[f].date = ZeroTime}

\* C13: a file without a resolvable date is not an error for that reason:
\* as long as no I/O call has failed no processFile has returned an error
\* and errorCount is 0, whatever files are undated, and the step that
\* transfers an undated file as the canonical copy of its content writes it
\* to dest/nodata/<original file name> when no file exists at that path as
\* the step begins.
C13_NoDateIsNoError ==
    /\ [](faults = 0 => failed = {} /\ state.errorCount = 0)
    /\ [](\A f \in Undated : f \in failed => faults > 0)
    /\ [][\A f \in NewlyPlaced \cap Undated :
            /\ placedAs'[f] = "canonical"
            /\ ExpectedNoData(f) \notin DOMAIN fs
            => placed'[f] = ExpectedNoData(f)
         ]_vars

\* a run of undated files only has returned without an error counted, a
\* canonical copy lying at dest/nodata/<original file name>
C13_Witness ==
    /\ Done /\ result = "nil"
    /\ Files \subseteq Undated
    /\ handed = Files
    /\ state.errorCount = 0
    /\ \E f \in AllFiles :
        /\ placedAs[f] = "canonical"
        /\ placed[f] = ExpectedNoData(f)

(***************************************************************************)
(* Naming conflicts and overwrites, in a destination that holds files.     *)
(***************************************************************************)
\* the workers that have planned a destination path and hold the lock
Planned == {w \in Workers : wpc[w] = "place"}

\* the directory, with its separator, and the stem of the path computed
\* for the file of worker w before any conflict is resolved
TargetDir(w) ==
    IF wbranch[w] = "duplicate" THEN "dest/duplicates/"
    ELSE IF content[wfile[w]].date = ZeroTime THEN "dest/nodata/"
    ELSE "dest/2020/05/01/"
TargetStem(w) ==
    IF wbranch[w] = "canonical" /\ content[wfile[w]].date # ZeroTime
    THEN Stem(wfile[w]) \o "_abcdef01"
    ELSE Stem(wfile[w])

\* the computed target, and <stem>_<i><ext> in the same directory
Target(w) == TargetDir(w) \o TargetStem(w) \o Extension(wfile[w])
Suffixed(w, i) ==
    TargetDir(w) \o TargetStem(w) \o "_" \o ToString(i)
        \o Extension(wfile[w])

\* the suffixes a run can reach: every name taken is one of the two the
\* destination held or one written by the run
Suffixes == 1 .. NumFiles + 3

\* C14: when a file exists at the computed target, the planned path is
\* <stem>_<i><ext> in the same directory for the smallest i >= 1 at which
\* no file exists: _1 with the target alone present, _2 with the target
\* and _1 present.
C14_SmallestFreeSuffix ==
    \A w \in Planned :
        Target(w) \in DOMAIN fs =>
            /\ \E i \in Suffixes :
                /\ wdest[w] = Suffixed(w, i)
                /\ Suffixed(w, i) \notin DOMAIN fs
                /\ \A j \in 1 .. i - 1 : Suffixed(w, j) \in DOMAIN fs
            /\ Suffixed(w, 1) \notin DOMAIN fs => wdest[w] = Suffixed(w, 1)
            /\ /\ Suffixed(w, 1) \in DOMAIN fs
               /\ Suffixed(w, 2) \notin DOMAIN fs
               => wdest[w] = Suffixed(w, 2)

\* the target and _1 exist and _2 is planned
C14_Witness ==
    \E w \in Planned :
        /\ Target(w) \in DOMAIN fs
        /\ Suffixed(w, 1) \in DOMAIN fs
        /\ wdest[w] = Suffixed(w, 2)

\* C15: no step writes to a path at which a file exists: every file of the
\* destination tree is still there after the step, unchanged; the files
\* placed by the run have pairwise distinct paths, none of them a path
\* the destination held before the run.
C15_NoOverwrite ==
    /\ [][\A p \in DOMAIN fs : p \in DOMAIN fs' /\ fs'[p] = fs[p]]_vars
    /\ [](\A f, g \in AllFiles :
            placedAs[f] # "" /\ placedAs[g] # "" /\ f # g =>
                placed[f] # placed[g])
    /\ [](\A f \in AllFiles : placedAs[f] # "" => Holds(f))
    /\ [](\A p \in ComputedNames : p \in DOMAIN fs /\ fs[p] = OldFile)

\* the run has returned with two files of one name placed, their computed
\* name having been taken before the run
C15_Witness ==
    /\ Done
    /\ \E f, g \in AllFiles :
        /\ f # g /\ SrcName(f) = SrcName(g)
        /\ placedAs[f] # "" /\ placedAs[g] # ""
        /\ SplitDir(placed[f]) = SplitDir(placed[g])
        /\ \E p \in ComputedNames :
            SplitDir(p) = SplitDir(placed[f]) /\ fs[p] = OldFile

(***************************************************************************)
(* The State under concurrent callers.                                     *)
(***************************************************************************)
\* C16: the copy Status returns is a value the State held at one instant,
\* a later assignment to the copy leaves the State as it is, and a later
\* change of the State leaves every copy as it is.
C16_StatusConsistent ==
    /\ [](\A c \in Callers :
            snapshot[c].taken => snapshot[c].returned \in held)
    /\ [][/\ \A c \in Callers :
                /\ snapshot[c].taken
                /\ snapshot'[c].copy # snapshot[c].copy
                /\ snapshot'[c].returned = snapshot[c].returned
                => state' = state
          /\ state' # state => snapshot' = snapshot
         ]_vars

\* a caller has assigned to its copy, and the State has changed since the
\* copy was taken while another caller holds a copy taken after the change
C16_Witness ==
    \E c, d \in Callers :
        /\ snapshot[c].taken
        /\ snapshot[c].copy # snapshot[c].returned
        /\ snapshot[c].returned # state
        /\ snapshot[d].taken
        /\ snapshot[d].returned = state

\* the counter a write method increments
Counters == {"processed", "duplicates", "errorCount"}

\* C17: every completed increment has added exactly one to its own counter
\* and has left the other fields as they were, and none is lost: the
\* counters equal the numbers of completed calls, in every interleaving of
\* the callers.
C17_IncrementsExact ==
    /\ [](/\ \A k \in Counters : state[k] = calls[k]
          /\ state.total = NumFiles)
    /\ [][\A c \in Callers :
            cpc[c] = "locked" /\ cpc'[c] = "idle" /\ cop[c] \in Counters
            => state' = [state EXCEPT ![cop[c]] = @ + 1]
         ]_vars

\* each increment has completed once, one of them after another caller
\* was returned a copy
C17_Witness ==
    /\ \A k \in Counters : calls[k] = 1 /\ state[k] = 1
    /\ \E c \in Callers :
        snapshot[c].taken /\ snapshot[c].returned # state

(***************************************************************************)
(* The end of the run.                                                     *)
(***************************************************************************)
\* processFile has returned for the path, with an error or with the file
\* placed, and the worker has counted it and notified the sink
Completed(f) ==
    /\ f \in failed \/ placed[f] # ""
    /\ counted[f] = 1
    /\ notified[f] = 1

\* C18: the channel is closed by the step of ProcessFiles that follows the
\* return of filepath.Walk, completed or failed, by no other step, and it
\* stays closed; a worker leaves its loop only from the receive and only
\* when the channel is closed; when every worker has left, every path
\* handed off has been processed to completion; ProcessFiles returns from
\* a run that was set up only when every worker has left.
C18_ClosedOnceThenDrained ==
    /\ [](/\ mainpc \in {"wait", "done"} /\ result # "setup" => closed
          /\ mainpc \in {"counted", "walk"} => ~closed
          /\ closed /\ AllExited => \A f \in handed : Completed(f)
          /\ Done /\ result # "setup" => AllExited)
    /\ [][/\ closed => closed'
          /\ closed' # closed => mainpc = "walk" /\ mainpc' = "wait"
          /\ mainpc = "walk" /\ mainpc' # "walk" => closed'
          /\ \A w \in Workers :
                wpc'[w] = "exited" /\ wpc[w] # "exited"
                    => closed /\ wpc[w] = "recv"]_vars

\* the channel is closed, one worker has left its loop and another is
\* still processing the path handed to it before the close
C18_Witness ==
    /\ closed
    /\ mainpc = "wait"
    /\ \E w \in Workers : wpc[w] = "exited"
    /\ \E w \in Workers :
        /\ wpc[w] \notin {"recv", "exited"}
        /\ wfile[w] \in handed
        /\ ~Completed(wfile[w])

\* ProcessFiles failed before any path was handed off: a store could not be
\* created or the log could not be opened, or filepath.Walk failed on the
\* root
FailedBeforeWork == result = "setup" \/ (walkErr /\ handed = {})

\* C19: when the creation of a store or the opening of the log fails, or
\* the walk fails before the first path, no file is transferred, the index
\* and the log stay empty, the counters of the State stay as NewState set
\* them, no path is ever handed off, and ProcessFiles returns the error.
C19_FailureBeforeWork ==
    /\ [](FailedBeforeWork =>
            /\ fs = <<>>
            /\ duplicates = <<>>
            /\ logFile = <<>>
            /\ state.processed = 0
            /\ state.duplicates = 0
            /\ state.errorCount = 0
            /\ sends = 0
            /\ result = "setup" => Done /\ ~closed
            /\ Done => result \in {"setup", "walk"})
    /\ [][FailedBeforeWork => FailedBeforeWork' /\ state' = state]_vars

\* ProcessFiles has returned the set-up error with files in the source tree
C19_Witness ==
    /\ Done
    /\ result = "setup"
    /\ tree # {}
    /\ state.total > 0

\* ProcessFiles has returned the error of a walk that failed on the root
RootUnreadable ==
    /\ Done
    /\ result = "walk"
    /\ handed = {}
    /\ tree # {}

\* C20: once filepath.Walk has failed no further path is handed off and the
\* channel is closed; ProcessFiles returns the error of the walk, and only
\* when every worker has left its loop, with every path handed off before
\* the failure counted in processed and notified to the sink exactly once.
C20_WalkFailureDrains ==
    /\ [](/\ walkErr => closed /\ mainpc \in {"wait", "done"}
          /\ Done /\ walkErr =>
                /\ result = "walk"
                /\ AllExited
                /\ \A f \in handed : counted[f] = 1 /\ notified[f] = 1
                /\ state.processed = Cardinality(handed)
                /\ sends = Cardinality(handed))
    /\ [][walkErr => walkErr' /\ handed' = handed]_vars

\* ProcessFiles has returned the error of a walk that failed after it had
\* handed off one file and before the other
C20_Witness ==
    /\ Done
    /\ walkErr
    /\ result = "walk"
    /\ handed # {}
    /\ tree \ handed # {}
    /\ state.processed = Cardinality(handed)

(***************************************************************************)
(* Backpressure, the order of the log and the choice of the canonical      *)
(* copy, in runs without faults over the largest tree.                     *)
(***************************************************************************)
\* the paths handed off and not yet counted in processed
InFlight == {f \in handed : counted[f] = 0}

\* the workers that hold a path: received and not yet back at the receive
Holding == {w \in Workers : wpc[w] \notin {"none", "recv", "exited"}}

\* C25: a path is handed off only in a step in which a worker waiting at
\* the receive takes it; a worker holds one path at a time and no two hold
\* the same; so the paths handed off and not yet counted in processed are
\* held by distinct workers and are never more than the workers.
C25_Backpressure ==
    /\ [](/\ Cardinality(InFlight) <= NumWorkers
          /\ Cardinality(handed) - state.processed <= NumWorkers
          /\ \A f \in InFlight : \E w \in Holding : wfile[w] = f
          /\ \A w, v \in Holding : w # v => wfile[w] # wfile[v])
    /\ [][handed' # handed =>
            \E w \in Workers :
                /\ wpc[w] = "recv"
                /\ wpc'[w] = "process"
                /\ wfile'[w] \notin handed
                /\ handed' = handed \cup {wfile'[w]}
                /\ \A v \in Workers \ {w} :
                        wpc'[v] = wpc[v] /\ wfile'[v] = wfile[v]]_vars

\* every worker holds a path that is not yet counted while the walker has
\* a further path to send
C25_Witness ==
    /\ mainpc = "walk"
    /\ tree \ handed # {}
    /\ Holding = Workers
    /\ Cardinality(InFlight) = NumWorkers

RECURSIVE IsSubSeq(_, _)
\* s is t with some elements left out
IsSubSeq(s, t) ==
    IF s = <<>> THEN TRUE
    ELSE IF t = <<>> THEN FALSE
    ELSE IF Head(s) = Head(t) THEN IsSubSeq(Tail(s), Tail(t))
    ELSE IsSubSeq(s, Tail(t))

\* the line of every duplicate decision, in the order of the decisions
DecisionLines ==
    [i \in 1 .. Len(decisions) |->
        LogLine(SrcPath(decisions[i]), FirstPath(decisions[i]))]

\* C26: the worker that writes a log line holds mapLock from the index
\* append on; the lines of the log are lines of the duplicate decisions in
\* the order in which the decisions were taken, and the path every line
\* names as the original is the first path of the index entry, registered
\* by a canonical transfer.
C26_LogOrdered ==
    /\ \A w \in Workers : wpc[w] = "log" => mapLock = {w}
    /\ IsSubSeq(logFile, DecisionLines)
    /\ \A i \in 1 .. Len(decisions) :
        \E g \in AllFiles :
            /\ placedAs[g] = "canonical"
            /\ placed[g] = FirstPath(decisions[i])

\* a run has returned in which two files were recorded as duplicates and
\* the log holds the lines of both
C26_Witness ==
    /\ Done
    /\ Len(decisions) >= 2
    /\ logFile = DecisionLines

\* the files of content c placed as duplicates
DuplicateCopies(c) ==
    {f \in AllFiles : placedAs[f] = "duplicate" /\ content[f].sum = c}

\* C27: a worker that enters the critical section takes the canonical
\* branch exactly when no file of the same content has been registered
\* before, whichever file it holds; when the run has returned every
\* content has one canonical file and all its other files are duplicates.
C27_FirstInIsCanonical ==
    /\ [](Done => \A c \in Checksums :
            LET S == {f \in handed : content[f].sum = c}
            IN  S # {} =>
                    /\ Cardinality(CanonicalCopies(c)) = 1
                    /\ Cardinality(DuplicateCopies(c)) = Cardinality(S) - 1)
    /\ [][\A w \in Workers :
            wpc[w] = "lock" /\ wpc'[w] = "place" =>
                (wbranch'[w] = "canonical") =
                    (CanonicalCopies(content[wfile[w]].sum) = {})]_vars

\* of two files of one content the one handed off second is the canonical
\* copy and the one handed off first is its duplicate
C27_Witness ==
    /\ Done
    /\ content[1].sum = content[2].sum
    /\ placedAs[2] = "canonical"
    /\ placedAs[1] = "duplicate"

\* the other outcome: the file handed off first is the canonical copy
C27_FirstHandedCanonical ==
    /\ Done
    /\ content[1].sum = content[2].sum
    /\ placedAs[1] = "canonical"
    /\ placedAs[2] = "duplicate"

\* the contents of the files handed off
HandedContents == {content[f].sum : f \in handed}

\* C29: when a run in which nothing failed has returned, processed is the
\* number of files enumerated, duplicates is that number less the number
\* of distinct contents, and errorCount is 0.
C29_CountersAccount ==
    Done /\ failed = {} =>
        /\ handed = tree
        /\ state.processed = Cardinality(tree)
        /\ state.duplicates = Cardinality(tree) - Cardinality(HandedContents)
        /\ state.errorCount = 0

\* two files of one content and a third of another: processed = 3,
\* duplicates = 1, errors = 0
C29_Witness ==
    /\ Done
    /\ \E a, b, c \in tree :
        /\ a # b
        /\ content[a].sum = content[b].sum
        /\ content[c].sum # content[a].sum
    /\ state.processed = 3
    /\ state.duplicates = 1
    /\ state.errorCount = 0

(***************************************************************************)
(* The total of the State.                                                 *)
(***************************************************************************)
\* C30: the State was created with processed, duplicates and errorCount 0,
\* the message "Initializing..." and the total it was given, and every
\* value it has held since, after any method or step of the run, has the
\* same total.
C30_TotalFixed ==
    /\ [](/\ [total |-> state.total, processed |-> 0, duplicates |-> 0,
              errorCount |-> 0, message |-> "Initializing..."] \in held
          /\ \A s \in held : s.total = state.total)
    /\ [][state'.total = state.total]_vars

\* every writing method has been called on a State with a total above 0
C30_Witness ==
    /\ state.total > 0
    /\ calls.processed > 0
    /\ calls.duplicates > 0
    /\ calls.errorCount > 0
    /\ calls.message > 0
    /\ state.message = "New message"

(***************************************************************************)
(* The two traversals of the source tree.                                  *)
(***************************************************************************)
\* the entries under the root that are not directories and whose own name
\* does not begin with a dot
Visible(t) == {e \in Listing(t) : ~e.isDir /\ Char(e.name, 1) # "."}

C21_RootMissing ==
    /\ op.name = "CountFiles" /\ op.pc = "returned"
    /\ ~op.root /\ op.err /\ op.total = 0
    /\ tree # {}

(***************************************************************************)
(* copyFile and moveFile.                                                  *)
(***************************************************************************)
Moved == op.name = "moveFile" /\ op.pc = "returned"
Copied == op.name = "copyFile" /\ op.pc = "returned"

\* the call has left the trees and the modes as it found them
Untouched ==
    /\ fs = op.before.fs
    /\ tree = op.before.tree
    /\ perm = op.before.perm

\* the destination holds all of the content of the source file
HoldsSource ==
    /\ op.dest \in DOMAIN fs
    /\ fs[op.dest] = [sum |-> content[op.f].sum, full |-> TRUE]

\* C22: moveFile returns an error whenever os.Rename fails, and then the
\* source file and the destination are as they were; when it returns nil
\* the source path is gone and the destination holds the content of the
\* source.
C22_MoveAllOrNothing ==
    Moved =>
        /\ op.err = (op.failedAt = "rename")
        /\ op.err => Untouched /\ (op.f \in op.before.tree => op.f \in tree)
        /\ ~op.err =>
            /\ op.f \in op.before.tree
            /\ op.f \notin tree
            /\ tree = op.before.tree \ {op.f}
            /\ HoldsSource

\* the rename of a source file that exists has failed: moveFile has
\* returned the error and the file is where it was
C22_Witness ==
    /\ Moved
    /\ op.err
    /\ op.f \in tree
    /\ Untouched

\* a move has succeeded onto a destination that held a file
C22_MovedOver ==
    /\ Moved
    /\ ~op.err
    /\ op.dest \in DOMAIN op.before.fs
    /\ HoldsSource

\* C23: copyFile returns an error when os.Open of the source or os.Create
\* of the destination fails, and the destination is then as it was: a
\* source that does not exist fails at os.Open, before os.Create; when
\* copyFile returns nil the destination holds the content of the source
\* and has the permission bits of the source.
C23_CopyResult ==
    Copied =>
        /\ op.err = (op.failedAt # "")
        /\ op.f \notin op.before.tree => op.err /\ op.failedAt = "open"
        /\ op.failedAt \in {"open", "create"} => Untouched
        /\ ~op.err =>
            /\ HoldsSource
            /\ perm[op.dest] = op.srcMode
            /\ tree = op.before.tree

\* copyFile of a source that does not exist has returned an error and the
\* file that was at the destination is unchanged
C23_Witness ==
    /\ Copied
    /\ op.f \notin op.before.tree
    /\ op.err
    /\ op.dest \in DOMAIN op.before.fs
    /\ fs[op.dest] = OldFile
    /\ perm = op.before.perm

\* a copy has succeeded onto a destination that held a file of another
\* mode
C23_CopiedOver ==
    /\ Copied
    /\ ~op.err
    /\ op.dest \in DOMAIN op.before.fs
    /\ op.before.perm[op.dest] # op.srcMode
    /\ HoldsSource
    /\ perm[op.dest] = op.srcMode

\* the destination of a copy exists and not all of the content is written
PartlyCopied ==
    /\ op.name = "copyFile"
    /\ op.pc = "copy"
    /\ op.dest \in DOMAIN fs
    /\ ~fs[op.dest].full

\* C24: in no state of a copy does the destination have a part of the
\* content together with the permission bits of the source.
C24_NoFinalModeOnPartial ==
    PartlyCopied => perm[op.dest] # op.srcMode

\* os.Chmod is the last step: the mode of the destination changes only
\* when all of the content is written
C24_ChmodAfterContent ==
    [][op.name = "copyFile" /\ op.dest \in DOMAIN perm
        /\ op.dest \in DOMAIN perm'
        /\ perm'[op.dest] # perm[op.dest] => fs[op.dest].full]_vars

(***************************************************************************)
(* A second run over the same source and destination.                      *)
(***************************************************************************)
\* the path computed for f as the canonical copy of its content
TargetOf(f) ==
    IF CreationDate(f) = ZeroTime THEN ExpectedNoData(f)
    ELSE ExpectedDated(f)

\* path is the target of f with a numeric suffix before the extension
IsSuffixed(f, path) ==
    \E i \in Suffixes :
        path = SplitDir(TargetOf(f))
                \o TrimSuffix(SplitFile(TargetOf(f)), Extension(f))
                \o "_" \o ToString(i) \o Extension(f)

\* the second run has returned
SecondDone == run.n = 2 /\ Done

\* the index is empty as ProcessFiles begins and never holds a first path
\* that was in the destination before the run; the files the first run
\* left are as they were; when the run has returned, every content has one
\* canonical copy placed by this run at a path that was free
SecondRunAfresh ==
    /\ mainpc = "counted" => duplicates = <<>>
    /\ \A c \in DOMAIN duplicates : duplicates[c][1] \notin DOMAIN run.before
    /\ \A p \in DOMAIN run.before : p \in DOMAIN fs /\ fs[p] = run.before[p]
    /\ SecondDone =>
        \A c \in {content[f].sum : f \in AllFiles} :
            /\ Cardinality(CanonicalCopies(c)) = 1
            /\ \A f \in CanonicalCopies(c) :
                    /\ placed[f] \notin DOMAIN run.before
                    /\ Holds(f)

C28_TargetFree ==
    /\ SecondDone
    /\ \E f \in AllFiles :
        /\ placedAs[f] = "canonical"
        /\ TargetOf(f) \notin DOMAIN run.before
        /\ placed[f] = TargetOf(f)

(***************************************************************************)
(* The date strategy.                                                      *)
(***************************************************************************)
\* the paths whose extension is one of .mp4, .avi, .mov, .mkv, .wmv in
\* some case
VideoPaths ==
    {"src/a.mp4", "src/a.MP4", "src/a.avi", "src/a.Avi", "src/a.mov",
     "src/a.MoV", "src/a.mkv", "src/a.MKV", "src/a.wmv", "src/a.WMV",
     "src/a.txt.mp4"}

Resolved == resolve.pc # "idle"

\* C31: processFile resolves the date with the video strategy exactly when
\* the extension is one of .mp4, .avi, .mov, .mkv, .wmv in any case and
\* with the photo strategy for every other extension, the empty one too;
\* the date is the one the strategy found or the zero time, and an error
\* of the video strategy is not returned from processFile.
C31_DateStrategy ==
    Resolved =>
        /\ resolve.used = IF resolve.path \in VideoPaths THEN "video"
                          ELSE "photo"
        /\ resolve.date =
            IF resolve.path \in VideoPaths
            THEN (IF resolve.video = "date" THEN SomeDate ELSE ZeroTime)
            ELSE (IF resolve.photo = "date" THEN SomeDate ELSE ZeroTime)
        /\ ~resolve.err
        /\ resolve.pc = "seek"

\* the video strategy has failed for a video in capitals: processFile has
\* no date and goes on
C31_Witness ==
    /\ Resolved
    /\ resolve.path = "src/a.MP4"
    /\ resolve.video = "error"
    /\ resolve.photo = "date"
    /\ resolve.used = "video"
    /\ resolve.date = ZeroTime
    /\ ~resolve.err

\* a path with no extension has gone to the photo strategy
C31_NoExtension ==
    /\ Resolved
    /\ resolve.path = "src/mp4"
    /\ resolve.used = "photo"
    /\ resolve.date = SomeDate

(***************************************************************************)
(* The lock of the index.                                                  *)
(***************************************************************************)
\* the workers inside the critical section of processFile
InCritical == {w \in Workers : wpc[w] \in {"place", "log"}}

\* C32: at most one worker is inside the critical section of processFile
\* and the lock is held by that worker and by no other: a worker whose
\* processFile has returned, with an error or not, does not hold it.
C32_LockExclusive ==
    /\ Cardinality(InCritical) <= 1
    /\ mapLock = InCritical

\* a copy has failed inside the critical section with a part of the file
\* written, its worker is on the way to IncrementError, and another worker
\* has taken the lock since
C32_Witness ==
    /\ \E p \in DOMAIN fs : ~fs[p].full
    /\ \E v, u \in Workers :
        /\ v # u
        /\ wpc[v] = "incerr"
        /\ werr[v]
        /\ wfile[v] \in failed
        /\ wpc[u] = "place"
        /\ mapLock = {u}

(***************************************************************************)
(* A transfer that fails inside the critical section.                      *)
(***************************************************************************)
\* processFile of w returns an error in this step from under the lock, or
\* from the MkdirAll it makes under the lock
FailsUnderLock(w) ==
    /\ wpc[w] \in {"lock", "place"}
    /\ wpc'[w] = "incerr"

\* the first path of every checksum of the index is a complete copy of
\* that content
IndexComplete ==
    \A c \in DOMAIN duplicates :
        /\ duplicates[c][1] \in DOMAIN fs
        /\ fs[duplicates[c][1]] = [sum |-> c, full |-> TRUE]

\* C33: a step in which processFile fails inside the critical section
\* leaves the index, the duplicates counter and the log as they were, so
\* the index never names a copy that was not completed and a file that
\* failed is on no path list.
C33_FailureLeavesIndex ==
    /\ [](/\ IndexComplete
          /\ \A f \in failed : \A c \in DOMAIN duplicates :
                \A i \in 1 .. Len(duplicates[c]) :
                    duplicates[c][i] # SrcPath(f))
    /\ [][\A w \in Workers :
            FailsUnderLock(w) =>
                /\ duplicates' = duplicates
                /\ state'.duplicates = state.duplicates
                /\ logFile' = logFile
                /\ decisions' = decisions]_vars

\* the canonical copy of a file failed half-way, the checksum was not
\* registered, and a later file of the same content has become the
\* canonical copy, beside the part that was written
C33_Witness ==
    \E f \in failed, g \in AllFiles, p \in DOMAIN fs :
        /\ f # g
        /\ content[f].sum = content[g].sum
        /\ ~fs[p].full
        /\ ~InDuplicates(p)
        /\ fs[p].sum = content[f].sum
        /\ placedAs[g] = "canonical"
        /\ placed[g] # p
        /\ duplicates[content[g].sum] = <<placed[g]>>
        /\ state.duplicates = 0
        /\ logFile = <<>>

(***************************************************************************)
(* Termination.                                                            *)
(***************************************************************************)
\* ProcessFiles has returned nil or an error
HasReturned == Done /\ result \in {"nil", "setup", "walk"}

\* C34: under fair scheduling ProcessFiles returns in every run.  A state
\* in which the walker blocked on the send, the workers blocked on the
\* receive or on the lock and the wait for the workers were all blocked
\* would be the end of a fair run that has not returned, so there is none.
C34_Terminates == <>HasReturned

\* the walker has closed the channel and waits for the workers, of which
\* one holds the lock and every other one is blocked on the lock or on
\* the receive
C34_Witness ==
    /\ mainpc = "wait"
    /\ \E w \in Workers :
        /\ mapLock = {w}
        /\ \E v \in Workers \ {w} : wpc[v] = "lock"
        /\ \A v \in Workers \ {w} : wpc[v] \in {"lock", "recv"}

(***************************************************************************)
(* One processFile per path.                                               *)
(***************************************************************************)
\* the workers that have received f and have not yet counted it: they are
\* in processFile for f or between its return and IncrementProcessed
Processing(f) ==
    {w \in Workers :
        /\ wfile[w] = f
        /\ wpc[w] \in {"process", "lock", "place", "log", "incerr", "incp"}}

\* C35: a path that was handed off is with exactly one worker until that
\* worker has counted it and with none afterwards; a worker begins
\* processFile only in the step that hands it a path not handed off
\* before, and that step takes one worker from the receive; when
\* ProcessFiles has returned every path handed off has been through
\* processFile once.
C35_OneWorkerPerPath ==
    /\ [](/\ \A f \in handed : Cardinality(Processing(f)) + counted[f] = 1
          /\ \A f \in AllFiles \ handed :
                Processing(f) = {} /\ counted[f] = 0
          /\ Done => \A f \in handed : counted[f] = 1)
    /\ [][\A w \in Workers :
            wpc'[w] = "process" /\ wpc[w] # "process" =>
                /\ wpc[w] = "recv"
                /\ wfile'[w] \notin handed
                /\ handed' = handed \cup {wfile'[w]}
                /\ \A v \in Workers \ {w} :
                        wpc'[v] = wpc[v] /\ wfile'[v] = wfile[v]]_vars

\* one path has been counted, another is with one worker and the other
\* worker waits at the receive
C35_Witness ==
    \E f, g \in handed, w, v \in Workers :
        /\ f # g
        /\ w # v
        /\ counted[g] = 1
        /\ Processing(f) = {w}
        /\ wpc[w] = "place"
        /\ wpc[v] = "recv"
        /\ ~closed

(***************************************************************************)
(* The duplicates counter, the index and the log.                          *)
(***************************************************************************)
RECURSIVE Surplus(_)
\* the sum over the checksums of cs of the length of the path list less 1
Surplus(cs) ==
    IF cs = {} THEN 0
    ELSE LET c == CHOOSE c \in cs : TRUE
         IN  Len(duplicates[c]) - 1 + Surplus(cs \ {c})

\* C36: whenever no worker is inside the critical section, State.duplicates
\* is the sum over the checksums of the index of the length of the path
\* list less 1, and is the number of lines in the duplicate log in a run
\* in which every write to the log succeeds.
C36_DuplicatesIsSurplus ==
    mapLock = {} =>
        /\ state.duplicates = Surplus(DOMAIN duplicates)
        /\ state.duplicates = Len(logFile)

\* no worker is in the critical section and one file has been recorded as
\* a duplicate and logged, before ProcessFiles has returned
C36_Witness ==
    /\ mapLock = {}
    /\ state.duplicates = 1
    /\ Len(logFile) = 1
    /\ \E c \in DOMAIN duplicates : Len(duplicates[c]) = 2
    /\ ~Done

(***************************************************************************)
(* The counters against each other.                                        *)
(***************************************************************************)
\* the workers between the receive of a path and IncrementProcessed for it
Uncounted ==
    {w \in Workers :
        wpc[w] \in {"process", "lock", "place", "log", "incerr", "incp"}}

\* C37: duplicates + errorCount never exceeds processed by more than the
\* number of workers between the receive of a path and IncrementProcessed
\* for it; when ProcessFiles has returned duplicates + errorCount is at
\* most processed, and no file is both placed as a duplicate and failed.
C37_CountersLag ==
    /\ state.duplicates + state.errorCount
            <= state.processed + Cardinality(Uncounted)
    /\ Done =>
        /\ state.duplicates + state.errorCount <= state.processed
        /\ PlacedDuplicates \cap failed = {}
        /\ state.duplicates = Cardinality(PlacedDuplicates)
        /\ state.errorCount = Cardinality(failed)

\* what an observer that polls during the run can see: a file is counted
\* as an error and no worker has yet counted its file in processed
C37_Witness ==
    /\ state.duplicates + state.errorCount > state.processed
    /\ state.duplicates + state.errorCount
            = state.processed + Cardinality(Uncounted)
    /\ state.errorCount = 1

(***************************************************************************)
(* The duplicate log is closed last.                                       *)
(***************************************************************************)
\* the workers that are in processFile or can still be handed a path
Working == {w \in Workers : wpc[w] \notin {"none", "exited"}}

\* C38: the duplicate log is closed only in a step before which every
\* worker has exited, so it is open in every state in which a worker is
\* in processFile or can still enter it, and a worker that writes a log
\* line writes it to the open log; when ProcessFiles has returned nil or
\* the error of the walk the log is closed and no worker is left.
C38_LogClosedLast ==
    /\ [](/\ Working # {} => logOpen
          /\ Done /\ result \in {"nil", "walk"} =>
                ~logOpen /\ Working = {})
    /\ [][/\ logOpen /\ ~logOpen' => \A w \in Workers : wpc[w] = "exited"
          /\ \A w \in Workers :
                wpc[w] = "log" /\ wpc'[w] # "log" => logOpen]_vars

\* the walk has failed, a log line was written in the run, and
\* ProcessFiles has returned the error of the walk with the log closed
\* after the last worker
C38_Witness ==
    /\ Done
    /\ result = "walk"
    /\ ~logOpen
    /\ Len(logFile) = 1
    /\ \A w \in Workers : wpc[w] = "exited"

\* ProcessFiles waits for the workers with the log open while a worker is
\* about to write its line
C38_WritingWhileWaiting ==
    /\ mainpc = "wait"
    /\ logOpen
    /\ \E w \in Workers : wpc[w] = "log"

====
